---- MODULE Spec2Model ----
(***************************************************************************)
(* Model of the advisory normalisation / merge engine                      *)
(* (canary/collectors/jenkins_advisories.py) and of the baseline risk      *)
(* scorer (canary/scoring/baseline.py).                                    *)
(*                                                                         *)
(* Text values are sequences of one-character strings, so that parsing,    *)
(* substring tests and lexicographic comparison are computed, not assumed. *)
(***************************************************************************)
EXTENDS Integers, Sequences, FiniteSets, TLC

\* ------------------------------------------------------------------------
\* Text
\* ------------------------------------------------------------------------

\* The characters that occur in the modelled inputs, in code-point order.
Chars ==
  << "\t", "\n", " ", "#", "-", ".", "/",
     "0", "1", "2", "3", "4", "5", "6", "7", "8", "9",
     ":", "?",
     "A", "B", "C", "D", "E", "F", "G", "H", "I", "J", "K", "L", "M",
     "N", "O", "P", "Q", "R", "S", "T", "U", "V", "W", "X", "Y", "Z",
     "[", "]", "_",
     "a", "b", "c", "d", "e", "f", "g", "h", "i", "j", "k", "l", "m",
     "n", "o", "p", "q", "r", "s", "t", "u", "v", "w", "x", "y", "z" >>

CharSet == { Chars[i] : i \in 1..Len(Chars) }

Ord == [ c \in CharSet |-> CHOOSE i \in 1..Len(Chars) : Chars[i] = c ]

UpperChars == { Chars[i] : i \in 20..45 }

LowerChars == { Chars[i] : i \in 49..74 }

DigitChars == { Chars[i] : i \in 8..17 }

\* Python str.strip() whitespace that the inputs can contain.
WhitespaceChars == { "\t", "\n", " " }

\* JSON null and a missing dict key.  Both are one-element sequences holding
\* a token that is not a character, so they differ from every text value.
None == << "<None>" >>

Absent == << "<Absent>" >>

\* Python truthiness of an optional text value (dict.get result).
Truthy(s) == s # None /\ s # Absent /\ s # << >>

\* str(x) of a dict.get(key) result (a missing key reads as None).
Str(s) == IF s = None \/ s = Absent THEN << "N", "o", "n", "e" >> ELSE s

\* str(d.get(key, "")): a missing key reads as the empty text.
StrOrEmpty(s) == IF s = Absent THEN << >> ELSE Str(s)

Take(s, n) == SubSeq(s, 1, n)

Drop(s, n) == SubSeq(s, n + 1, Len(s))

\* str.find for one character: first index (1-based), 0 when absent.
Find(s, c) ==
  IF \E i \in 1..Len(s) : s[i] = c
  THEN CHOOSE i \in 1..Len(s) : s[i] = c /\ \A j \in 1..(i - 1) : s[j] # c
  ELSE 0

\* First index at which some character of cs occurs, 0 when none does.
FindAny(s, cs) ==
  IF \E i \in 1..Len(s) : s[i] \in cs
  THEN CHOOSE i \in 1..Len(s) : s[i] \in cs /\ \A j \in 1..(i - 1) : s[j] \notin cs
  ELSE 0

Contains(s, c) == \E i \in 1..Len(s) : s[i] = c

StartsWith(s, p) == Len(p) <= Len(s) /\ Take(s, Len(p)) = p

EndsWith(s, p) == Len(p) <= Len(s) /\ SubSeq(s, Len(s) - Len(p) + 1, Len(s)) = p

\* Python's `k in name` for texts.
IsSubstring(k, s) ==
  \E i \in 0..(Len(s) - Len(k)) : SubSeq(s, i + 1, i + Len(k)) = k

LStrip(s, cs) ==
  IF \A i \in 1..Len(s) : s[i] \in cs
  THEN << >>
  ELSE Drop(s, (CHOOSE i \in 1..Len(s) :
                  s[i] \notin cs /\ \A j \in 1..(i - 1) : s[j] \in cs) - 1)

RStrip(s, cs) ==
  IF \A i \in 1..Len(s) : s[i] \in cs
  THEN << >>
  ELSE Take(s, CHOOSE i \in 1..Len(s) :
                  s[i] \notin cs /\ \A j \in (i + 1)..Len(s) : s[j] \in cs)

Strip(s) == RStrip(LStrip(s, WhitespaceChars), WhitespaceChars)

RemoveChars(s, cs) == SelectSeq(s, LAMBDA c : c \notin cs)

LowerChar(c) == IF c \in UpperChars THEN Chars[Ord[c] + 29] ELSE c

Lower(s) == [ i \in 1..Len(s) |-> LowerChar(s[i]) ]

\* Python's < on str: lexicographic by code point.
LexLess(a, b) ==
  \/ /\ Len(a) < Len(b)
     /\ Take(b, Len(a)) = a
  \/ \E i \in 1..Len(a) :
       /\ i <= Len(b)
       /\ Take(a, i - 1) = Take(b, i - 1)
       /\ Ord[a[i]] < Ord[b[i]]

MinText(S) == CHOOSE x \in S : \A y \in S : x = y \/ LexLess(x, y)

\* sorted(set(...)) of texts.
RECURSIVE SortedTexts(_)
SortedTexts(S) ==
  IF S = {} THEN << >>
  ELSE LET m == MinText(S) IN << m >> \o SortedTexts(S \ {m})

Range(s) == { s[i] : i \in 1..Len(s) }

\* ------------------------------------------------------------------------
\* URL parsing (urllib.parse as called by the collector)
\* ------------------------------------------------------------------------

T_https == << "h", "t", "t", "p", "s" >>

T_http == << "h", "t", "t", "p" >>

T_jenkins_io == << "j", "e", "n", "k", "i", "n", "s", ".", "i", "o" >>

T_www_jenkins_io == << "w", "w", "w", "." >> \o T_jenkins_io

T_advisory_path ==
  << "/", "s", "e", "c", "u", "r", "i", "t", "y", "/",
     "a", "d", "v", "i", "s", "o", "r", "y", "/" >>

\* urllib.parse.uses_netloc, restricted to the schemes the alphabet can spell.
UsesNetloc ==
  { T_https, T_http, << "f", "t", "p" >>, << "f", "i", "l", "e" >>,
    << "w", "s" >>, << "w", "s", "s" >>, << "g", "i", "t" >>,
    << "s", "v", "n" >>, << "s", "f", "t", "p" >>, << "n", "f", "s" >> }

\* urllib.parse.scheme_chars, restricted to the alphabet.
SchemeChars == UpperChars \cup LowerChars \cup DigitChars \cup { "-", "." }

\* Bracketed hosts that ipaddress accepts as IPv6, within the alphabet.
ValidBracketedHosts == { << ":", ":", "1" >> }

\* urlsplit's bracket validation of the network location: TRUE when urlsplit
\* raises ValueError.
NetlocRaises(netloc) ==
  LET open == Contains(netloc, "[")
      close == Contains(netloc, "]")
      afterOpen == Drop(netloc, Find(netloc, "["))
      inner == IF Contains(afterOpen, "]")
               THEN Take(afterOpen, Find(afterOpen, "]") - 1)
               ELSE afterOpen
  IN  \/ open /\ ~close
      \/ close /\ ~open
      \/ open /\ close /\ inner \notin ValidBracketedHosts

\* urlparse(url): a record with ok = FALSE when ValueError is raised.
urlparse(url) ==
  LET Refused == [ ok |-> FALSE, scheme |-> << >>, netloc |-> << >>, path |-> << >>,
                   query |-> << >>, fragment |-> << >> ]
      Parts(scheme, netloc, r3, qi, fragment) ==
        [ ok |-> TRUE, scheme |-> scheme, netloc |-> netloc,
          path |-> IF qi = 0 THEN r3 ELSE Take(r3, qi - 1),
          query |-> IF qi = 0 THEN << >> ELSE Drop(r3, qi),
          fragment |-> fragment ]
      Query(scheme, netloc, r3, fragment) ==
        Parts(scheme, netloc, r3, Find(r3, "?"), fragment)
      Fragment(scheme, netloc, r2, fi) ==
        Query(scheme, netloc, IF fi = 0 THEN r2 ELSE Take(r2, fi - 1),
              IF fi = 0 THEN << >> ELSE Drop(r2, fi))
      Checked(scheme, netloc, r2) ==
        IF NetlocRaises(netloc) THEN Refused
        ELSE Fragment(scheme, netloc, r2, Find(r2, "#"))
      Netloc(scheme, hasNetloc, r1, r1b, di) ==
        Checked(scheme,
                IF ~hasNetloc THEN << >>
                ELSE IF di = 0 THEN r1b ELSE Take(r1b, di - 1),
                IF ~hasNetloc THEN r1
                ELSE IF di = 0 THEN << >> ELSE Drop(r1b, di - 1))
      Rest(scheme, r1, hasNetloc) ==
        Netloc(scheme, hasNetloc, r1, Drop(r1, 2),
               IF hasNetloc THEN FindAny(Drop(r1, 2), { "/", "?", "#" }) ELSE 0)
      Scheme(u2, ci, hasScheme) ==
        Rest(IF hasScheme THEN Lower(Take(u2, ci - 1)) ELSE << >>,
             IF hasScheme THEN Drop(u2, ci) ELSE u2,
             StartsWith(IF hasScheme THEN Drop(u2, ci) ELSE u2, << "/", "/" >>))
      Colon(u2, ci) ==
        Scheme(u2, ci, /\ ci > 1
                       /\ u2[1] \in UpperChars \cup LowerChars
                       /\ \A j \in 1..(ci - 1) : u2[j] \in SchemeChars)
      Cleaned(u2) == Colon(u2, Find(u2, ":"))
  IN  Cleaned(RemoveChars(LStrip(url, WhitespaceChars), { "\t", "\n" }))

\* urlunparse(parts)
urlunparse(p) ==
  LET withNetloc ==
        \/ p.netloc # << >>
        \/ /\ p.scheme # << >>
           /\ p.scheme \in UsesNetloc
           /\ ~StartsWith(p.path, << "/", "/" >>)
  IN  (IF p.scheme # << >> THEN p.scheme \o << ":" >> ELSE << >>)
        \o (IF withNetloc
            THEN << "/", "/" >> \o p.netloc
                   \o (IF p.path # << >> /\ p.path[1] # "/" THEN << "/" >> ELSE << >>)
            ELSE << >>)
        \o p.path
        \o (IF p.query # << >> THEN << "?" >> \o p.query ELSE << >>)
        \o (IF p.fragment # << >> THEN << "#" >> \o p.fragment ELSE << >>)

_canonicalize_jenkins_url_SuffixMatch(url) ==
  LET Rebuilt(p) ==
        IF ~p.ok THEN None
        ELSE urlunparse([ p EXCEPT
               !.scheme = IF @ = << >> \/ @ = T_http THEN T_https ELSE @,
               !.netloc = IF EndsWith(@, T_jenkins_io) THEN T_www_jenkins_io ELSE @ ])
  IN  IF ~Truthy(url) THEN url ELSE Rebuilt(urlparse(Strip(url)))

\* _canonicalize_jenkins_url: None stands for the null result.
_canonicalize_jenkins_url(url) ==
  LET Rebuilt(p) ==
        IF ~p.ok THEN None
        ELSE urlunparse([ p EXCEPT
               !.scheme = IF @ = << >> \/ @ = T_http THEN T_https ELSE @,
               !.netloc = IF @ = T_jenkins_io THEN T_www_jenkins_io ELSE @ ])
  IN  IF ~Truthy(url) THEN url ELSE Rebuilt(urlparse(Strip(url)))

_strip_query_fragment(url) ==
  LET Stripped(p) ==
        IF ~p.ok THEN url
        ELSE urlunparse([ p EXCEPT !.query = << >>, !.fragment = << >> ])
  IN  Stripped(urlparse(url))

_normalize_advisory_url(url) ==
  LET Canonical(c) == _strip_query_fragment(IF Truthy(c) THEN c ELSE url)
  IN  Canonical(_canonicalize_jenkins_url(url))

DigitVal(c) == Ord[c] - 8

\* date.fromisoformat on a text of the shape dddd-dd-dd: TRUE when it parses.
IsValidDate(d) ==
  LET y == DigitVal(d[1]) * 1000 + DigitVal(d[2]) * 100
             + DigitVal(d[3]) * 10 + DigitVal(d[4])
      m == DigitVal(d[6]) * 10 + DigitVal(d[7])
      dd == DigitVal(d[9]) * 10 + DigitVal(d[10])
      leap == (y % 4 = 0 /\ y % 100 # 0) \/ y % 400 = 0
      dim == IF m \in { 4, 6, 9, 11 } THEN 30
             ELSE IF m = 2 THEN (IF leap THEN 29 ELSE 28) ELSE 31
  IN  y >= 1 /\ m \in 1..12 /\ dd \in 1..dim

\* The pattern \d{4}-\d{2}-\d{2}
IsDateShaped(d) ==
  /\ Len(d) = 10
  /\ \A i \in { 1, 2, 3, 4, 6, 7, 9, 10 } : d[i] \in DigitChars
  /\ d[5] = "-" /\ d[8] = "-"

\* The text matched by /security/advisory/(\d{4}-\d{2}-\d{2})/?$ at the end
\* of s, or << >> when there is no match.
DateSegmentAtEnd(s) ==
  LET seg(x) == IF Len(x) >= 29
                   /\ SubSeq(x, Len(x) - 28, Len(x) - 10) = T_advisory_path
                   /\ IsDateShaped(SubSeq(x, Len(x) - 9, Len(x)))
                THEN SubSeq(x, Len(x) - 9, Len(x)) ELSE << >>
      First(a, b) == IF a # << >> THEN a ELSE b
  IN  First(seg(IF EndsWith(s, << "/" >>) THEN Take(s, Len(s) - 1) ELSE s), seg(s))

\* _date_from_advisory_url: the ISO text of the derived date, << >> for None.
\* ($ also matches before one trailing newline.)
_date_from_advisory_url(url) ==
  LET Valid(d) == IF d # << >> /\ IsValidDate(d) THEN d ELSE << >>
      Segment(u) ==
        Valid(DateSegmentAtEnd(IF EndsWith(u, << "\n" >>) /\ DateSegmentAtEnd(u) = << >>
                               THEN Take(u, Len(u) - 1) ELSE u))
  IN  Segment(_strip_query_fragment(url))

\* ------------------------------------------------------------------------
\* merge_advisory_records
\* ------------------------------------------------------------------------
\* An advisory record is a record with the fields
\*   source, type, plugin_id, advisory_id, published_date, title, url
\*       (texts, None or Absent),
\*   security_warning_ids (sequence of texts),
\*   active_security_warning ("absent", "false" or "true"),
\*   vulnerabilities (sequence of findings),
\*   severity_summary (a record with present (is a dict), max_severity_label
\*       (text or None) and max_cvss_base_score (tenths, -1 for None)),
\*   merged_from_count (the _merged_from_count key, 0 when missing).
\* A finding has security_warning_id, severity_label, severity_source,
\* url_fragment (texts or None) and cvss, a record with present (is a dict),
\* version, vector, url (texts or None) and base_score (tenths, -1 for None).

T_jenkins == << "j", "e", "n", "k", "i", "n", "s" >>

T_advisory == << "a", "d", "v", "i", "s", "o", "r", "y" >>

NoCvss ==
  [ present |-> FALSE, version |-> None, vector |-> None,
    base_score |-> -1, url |-> None ]

NoSummary ==
  [ present |-> FALSE, max_severity_label |-> None, max_cvss_base_score |-> -1 ]

\* key_for: the dedupe key (source, type, plugin_id, advisory_id).
key_for(r) ==
  << StrOrEmpty(r.source), StrOrEmpty(r.type),
     StrOrEmpty(r.plugin_id), StrOrEmpty(r.advisory_id) >>

\* host(u) raises ValueError exactly when urlparse does.
HostRaises(u) == Truthy(u) /\ ~urlparse(u).ok

host(u) == IF ~Truthy(u) THEN << >> ELSE urlparse(u).netloc

\* The per-record normalisation at the head of the loop body: URL
\* canonicalisation and id/date derivation for jenkins advisories, sorted
\* de-duplicated warning ids, findings without an id dropped.
NormalizeRecord(r_in) ==
  LET isJenkins == r_in.source = T_jenkins /\ r_in.type = T_advisory
      Normalized(url, derived) ==
        [ r_in EXCEPT
            !.url = url,
            !.advisory_id =
               IF derived # << >> /\ ~Truthy(r_in.advisory_id) THEN derived ELSE @,
            !.published_date =
               IF derived # << >> /\ ~Truthy(r_in.published_date) THEN derived ELSE @,
            !.security_warning_ids = SortedTexts(Range(r_in.security_warning_ids)),
            !.vulnerabilities =
               SelectSeq(r_in.vulnerabilities,
                         LAMBDA v : Truthy(v.security_warning_id)) ]
      WithUrl(url) ==
        Normalized(url,
                   IF isJenkins
                   THEN _date_from_advisory_url(IF Truthy(url) THEN url ELSE << >>)
                   ELSE << >>)
  IN  WithUrl(IF isJenkins /\ Truthy(r_in.url)
              THEN _normalize_advisory_url(Str(r_in.url)) ELSE r_in.url)

\* {v["security_warning_id"]: v for v in vulns}: a later finding with the same
\* id replaces an earlier one.
VulnIds(vulns) == { vulns[i].security_warning_id : i \in 1..Len(vulns) }

VulnFor(vulns, sid) ==
  vulns[CHOOSE i \in 1..Len(vulns) :
          /\ vulns[i].security_warning_id = sid
          /\ \A j \in (i + 1)..Len(vulns) : vulns[j].security_warning_id # sid]

EmptyText(x) == x = None \/ x = << >>

\* The cvss object merge: keep the base value of a key unless it is None or
\* empty and the new value is not.
MergeCvss(b, v) ==
  IF ~v.present THEN b
  ELSE LET bcv == IF b.present THEN b ELSE NoCvss
       IN  [ present |-> TRUE,
             version |-> IF EmptyText(bcv.version) /\ ~EmptyText(v.version)
                         THEN v.version ELSE bcv.version,
             vector |-> IF EmptyText(bcv.vector) /\ ~EmptyText(v.vector)
                        THEN v.vector ELSE bcv.vector,
             base_score |-> IF bcv.base_score = -1 /\ v.base_score # -1
                            THEN v.base_score ELSE bcv.base_score,
             url |-> IF EmptyText(bcv.url) /\ ~EmptyText(v.url)
                     THEN v.url ELSE bcv.url ]

\* The fields of a finding that the merge fills from the new record.
MergedFindingFields == { "severity_label", "url_fragment" }

\* Merge of two findings with the same security_warning_id.
MergeFinding(b, v) ==
  [ b EXCEPT
      !.severity_label =
         IF "severity_label" \in MergedFindingFields
            /\ ~Truthy(b.severity_label) /\ Truthy(v.severity_label)
         THEN v.severity_label ELSE @,
      !.severity_source =
         IF "severity_source" \in MergedFindingFields
            /\ ~Truthy(b.severity_source) /\ Truthy(v.severity_source)
         THEN v.severity_source ELSE @,
      !.url_fragment =
         IF "url_fragment" \in MergedFindingFields
            /\ ~Truthy(b.url_fragment) /\ Truthy(v.url_fragment)
         THEN v.url_fragment ELSE @,
      !.cvss = MergeCvss(b.cvss, v.cvss) ]

\* Union of the findings by security_warning_id, in ascending id order; an
\* empty union leaves the base list as it is.
MergeVulnerabilities(bv, nv) ==
  LET Union(ids) ==
        IF ids = << >> THEN bv
        ELSE [ i \in 1..Len(ids) |->
                 IF ids[i] \notin VulnIds(bv) THEN VulnFor(nv, ids[i])
                 ELSE IF ids[i] \notin VulnIds(nv) THEN VulnFor(bv, ids[i])
                 ELSE MergeFinding(VulnFor(bv, ids[i]), VulnFor(nv, ids[i])) ]
  IN  Union(SortedTexts(VulnIds(bv) \cup VulnIds(nv)))

\* The URL preference: TRUE when evaluating it raises ValueError.
MergeUrlRaises(base_url, new_url) ==
  /\ Truthy(new_url)
  /\ Truthy(base_url)
  /\ \/ HostRaises(new_url)
     \/ host(new_url) = T_www_jenkins_io /\ HostRaises(base_url)

\* Mutation of MergeUrl: any non-empty new url replaces the base url.
MergeUrl_LastWins(base_url, new_url) ==
  IF Truthy(new_url) THEN new_url ELSE base_url

\* The URL preference: take the new url when the base has none, or when the
\* new host is www.jenkins.io and the base host is not.
MergeUrl(base_url, new_url) ==
  IF /\ Truthy(new_url)
     /\ \/ ~Truthy(base_url)
        \/ /\ host(new_url) = T_www_jenkins_io
           /\ host(base_url) # T_www_jenkins_io
  THEN new_url ELSE base_url

\* Mutation of MergeActive: the flag of the last record wins.
MergeActive_LastWins(b, n) == IF n = "true" THEN "true" ELSE "false"

MergeActive(b, n) == IF b = "true" \/ n = "true" THEN "true" ELSE "false"

MergePublishedDate(base_date, new_date) ==
  IF Truthy(base_date) /\ Truthy(new_date)
  THEN (IF LexLess(Str(new_date), Str(base_date)) THEN Str(new_date) ELSE Str(base_date))
  ELSE IF ~Truthy(base_date) /\ Truthy(new_date) THEN new_date
  ELSE base_date

MergeTitle(base_title, new_title) ==
  IF ~Truthy(base_title) /\ Truthy(new_title) THEN new_title ELSE base_title

\* The body of the loop for a record r (already normalised) whose key is
\* already present with record base.
MergeInto(base, r) ==
  [ base EXCEPT
      !.url = MergeUrl(base.url, r.url),
      !.security_warning_ids =
         SortedTexts(Range(base.security_warning_ids) \cup Range(r.security_warning_ids)),
      !.active_security_warning =
         MergeActive(base.active_security_warning, r.active_security_warning),
      !.published_date = MergePublishedDate(base.published_date, r.published_date),
      !.title = MergeTitle(base.title, r.title),
      !.vulnerabilities = MergeVulnerabilities(base.vulnerabilities, r.vulnerabilities) ]

\* The state of the loop: merged is the dict in insertion order (a sequence
\* of key/record pairs), counts the per-key input count, raised whether an
\* exception has escaped.
MergeStart == [ merged |-> << >>, counts |-> << >>, raised |-> FALSE ]

\* Mutation of KeyIndex: only the most recently inserted key is found.
KeyIndex_LastOnly(mseq, k) ==
  IF Len(mseq) > 0 /\ mseq[Len(mseq)].k = k THEN Len(mseq) ELSE 0

KeyIndex(mseq, k) ==
  IF \E i \in 1..Len(mseq) : mseq[i].k = k
  THEN CHOOSE i \in 1..Len(mseq) : mseq[i].k = k
  ELSE 0

\* One iteration of `for r_in in records`.
MergeLoopBody(st, r_in) ==
  LET At(r, k, i) ==
        IF i = 0
        THEN [ st EXCEPT !.merged = Append(@, [ k |-> k, obj |-> r ]),
                         !.counts = Append(@, 1) ]
        ELSE IF MergeUrlRaises(st.merged[i].obj.url, r.url)
        THEN [ st EXCEPT !.raised = TRUE ]
        ELSE [ st EXCEPT !.merged[i].obj = MergeInto(@, r),
                         !.counts[i] = @ + 1 ]
      Keyed(r, k) == At(r, k, KeyIndex(st.merged, k))
      Normalised(r) == Keyed(r, key_for(r))
  IN  Normalised(NormalizeRecord(r_in))

\* Mutation of StampsCount: only groups of more than two records are stamped.
StampsCount_MoreThanTwo(c) == c > 2

\* Whether a group of c input records is stamped with _merged_from_count.
StampsCount(c) == c > 1

\* The final loop: stamp _merged_from_count and collect the records.
MergeOutput(st) ==
  [ i \in 1..Len(st.merged) |->
      IF StampsCount(st.counts[i])
      THEN [ st.merged[i].obj EXCEPT !.merged_from_count = st.counts[i] ]
      ELSE st.merged[i].obj ]

RECURSIVE MergeFold(_, _, _)
MergeFold(st, recs, i) ==
  IF st.raised \/ i > Len(recs) THEN st
  ELSE MergeFold(MergeLoopBody(st, recs[i]), recs, i + 1)

\* merge_advisory_records as a function of the whole input: the returned
\* list, or raised = TRUE.
merge_advisory_records(recs) ==
  LET Result(st) == [ raised |-> st.raised,
                      out |-> IF st.raised THEN << >> ELSE MergeOutput(st) ]
  IN  Result(MergeFold(MergeStart, recs, 1))

\* build_advisories_events sorts the merged records by
\* (str(published_date), str(plugin_id)) with a stable sort.
EventKeyLess(a, b) ==
  LET ad == StrOrEmpty(a.published_date)
      bd == StrOrEmpty(b.published_date)
  IN  \/ LexLess(ad, bd)
      \/ ad = bd /\ LexLess(StrOrEmpty(a.plugin_id), StrOrEmpty(b.plugin_id))

RECURSIVE SortEvents(_)
SortEvents(recs) ==
  IF recs = << >> THEN << >>
  ELSE LET front == SortEvents(Take(recs, Len(recs) - 1))
           x == recs[Len(recs)]
           n == Cardinality({ i \in 1..Len(front) : ~EventKeyLess(x, front[i]) })
       IN  Take(front, n) \o << x >> \o Drop(front, n)

\* build_advisories_events keeps only jenkins advisory records.
IsJenkinsAdvisory(r) == r.source = T_jenkins /\ r.type = T_advisory

\* ------------------------------------------------------------------------
\* score_plugin_baseline
\* ------------------------------------------------------------------------
\* data_dir is a record of three functions over plugin ids (texts):
\*   advisories[id]  the files <id>.advisories.real.jsonl, .sample.jsonl and
\*                   .jsonl, each [exists, lines] with lines a sequence of
\*                   advisory records;
\*   plugins[id]     the file <id>.snapshot.json: [exists, plugin_api] with
\*                   plugin_api = [requiredCore (text or None), dependencies
\*                   (sequence of the `name` texts), securityWarnings
\*                   (sequence of "true"/"false", the `active` values),
\*                   releaseTimestamp = [day, aware]: the day ordinal of the
\*                   timestamp (0 when missing or unparseable) and whether
\*                   it carries a UTC offset];
\*   healthscore[id] the file <id>.healthscore.json: [exists, value] with
\*                   value in tenths, or NoHealthValue.
\* Dates are day ordinals (date.toordinal); 0 stands for None.  CVSS scores
\* are tenths; -1 stands for None.

NoFile == [ exists |-> FALSE, lines |-> << >> ]

NoSnapshot ==
  [ exists |-> FALSE,
    plugin_api |-> [ requiredCore |-> None, dependencies |-> << >>,
                     securityWarnings |-> << >>,
                     releaseTimestamp |-> [ day |-> 0, aware |-> TRUE ] ] ]

\* A health record whose value is null or not a number.
NoHealthValue == -1000000

\* A health record whose value is the JSON literal NaN.
NaNHealthValue == -2000000

NoHealth == [ exists |-> FALSE, value |-> NoHealthValue ]

Min(a, b) == IF a <= b THEN a ELSE b

Max(a, b) == IF a >= b THEN a ELSE b

MaxOfSet(S) == CHOOSE x \in S : \A y \in S : y <= x

\* Python round() of n / d (round half to even), for n >= 0 and d > 0.
RoundHalfEven(n, d) ==
  LET q == n \div d
      r == n % d
  IN  IF 2 * r < d THEN q
      ELSE IF 2 * r > d THEN q + 1
      ELSE IF q % 2 = 0 THEN q ELSE q + 1

DaysBeforeMonth == << 0, 31, 59, 90, 120, 151, 181, 212, 243, 273, 304, 334 >>

\* date.toordinal of a valid date text dddd-dd-dd.
ToOrdinal(d) ==
  LET Days(y1, m, dd, leap) ==
        365 * y1 + (y1 \div 4) - (y1 \div 100) + (y1 \div 400)
          + DaysBeforeMonth[m] + (IF m > 2 /\ leap THEN 1 ELSE 0) + dd
      Fields(y, m, dd) ==
        Days(y - 1, m, dd, (y % 4 = 0 /\ y % 100 # 0) \/ y % 400 = 0)
  IN  Fields(DigitVal(d[1]) * 1000 + DigitVal(d[2]) * 100
               + DigitVal(d[3]) * 10 + DigitVal(d[4]),
             DigitVal(d[6]) * 10 + DigitVal(d[7]),
             DigitVal(d[9]) * 10 + DigitVal(d[10]))

\* _parse_date(str(rec.get("published_date", "")).strip())
_parse_date(published_date) ==
  LET Parsed(head) ==
        IF IsDateShaped(head) /\ IsValidDate(head) THEN ToOrdinal(head) ELSE 0
      Prefix(v) == IF Len(v) > 10 THEN Take(v, 10) ELSE v
  IN  Parsed(Prefix(Strip(StrOrEmpty(published_date))))

\* Mutation of _load_advisories_for_plugin: the sample file is tried first
\* whatever prefer_real says.
_load_advisories_for_plugin_SampleFirst(plugin_id, data_dir, prefer_real) ==
  LET FirstExisting(c1, c2, c3) ==
        IF c1.exists THEN c1.lines
        ELSE IF c2.exists THEN c2.lines
        ELSE IF c3.exists THEN c3.lines
        ELSE << >>
      Candidates(f) == FirstExisting(f.sample, f.real, f.bare)
  IN  Candidates(IF plugin_id \in DOMAIN data_dir.advisories
                 THEN data_dir.advisories[plugin_id]
                 ELSE [ real |-> NoFile, sample |-> NoFile, bare |-> NoFile ])

\* _load_advisories_for_plugin: the lines of the first existing candidate.
_load_advisories_for_plugin(plugin_id, data_dir, prefer_real) ==
  LET FirstExisting(c1, c2, c3) ==
        IF c1.exists THEN c1.lines
        ELSE IF c2.exists THEN c2.lines
        ELSE IF c3.exists THEN c3.lines
        ELSE << >>
      Candidates(f) ==
        IF prefer_real THEN FirstExisting(f.real, f.sample, f.bare)
        ELSE FirstExisting(f.sample, f.real, f.bare)
  IN  Candidates(IF plugin_id \in DOMAIN data_dir.advisories
                 THEN data_dir.advisories[plugin_id]
                 ELSE [ real |-> NoFile, sample |-> NoFile, bare |-> NoFile ])

\* Whether any of the three advisories files of a plugin exists.
AdvisoriesFileExists(plugin_id, data_dir) ==
  /\ plugin_id \in DOMAIN data_dir.advisories
  /\ \/ data_dir.advisories[plugin_id].real.exists
     \/ data_dir.advisories[plugin_id].sample.exists
     \/ data_dir.advisories[plugin_id].bare.exists

_load_plugin_snapshot(plugin_id, data_dir) ==
  IF plugin_id \in DOMAIN data_dir.plugins
  THEN data_dir.plugins[plugin_id] ELSE NoSnapshot

_load_healthscore_record(plugin_id, data_dir) ==
  IF plugin_id \in DOMAIN data_dir.healthscore
  THEN data_dir.healthscore[plugin_id] ELSE NoHealth

\* What a file, or one line of a JSONL file, holds when it is not valid JSON
\* (a truncated line, a half-written snapshot): json.loads raises on it.
InvalidJson == [ malformed |-> TRUE ]

\* Whether _load_advisories_for_plugin raises: json.loads (line 380) is
\* applied to every non-blank line of the first existing candidate.
AdvisoriesLoadRaises(plugin_id, data_dir, prefer_real) ==
  LET Refused(lines) == \E i \in 1..Len(lines) : lines[i] = InvalidJson
  IN  Refused(_load_advisories_for_plugin(plugin_id, data_dir, prefer_real))

\* Whether _load_plugin_snapshot raises: json.loads (line 30) is applied to
\* the text of the snapshot file when it exists.
SnapshotLoadRaises(plugin_id, data_dir) ==
  LET Refused(snapshot) == snapshot.exists /\ snapshot.plugin_api = InvalidJson
  IN  Refused(_load_plugin_snapshot(plugin_id, data_dir))

\* _advisory_record_max_cvss: the largest base score of the findings, else
\* the summary's max_cvss_base_score, else None (-1).
_advisory_record_max_cvss(rec) ==
  LET Best(scores) ==
        IF scores # {} THEN MaxOfSet(scores)
        ELSE IF rec.severity_summary.present
        THEN rec.severity_summary.max_cvss_base_score
        ELSE -1
  IN  Best({ rec.vulnerabilities[i].cvss.base_score :
               i \in { j \in 1..Len(rec.vulnerabilities) :
                         /\ rec.vulnerabilities[j].cvss.present
                         /\ rec.vulnerabilities[j].cvss.base_score # -1 } })

\* _cvss_base_score_to_label (scorer): "" stands for None.
_cvss_base_score_to_label(score) ==
  IF score = -1 THEN ""
  ELSE IF score = 0 THEN "None"
  ELSE IF score < 40 THEN "Low"
  ELSE IF score < 70 THEN "Medium"
  ELSE IF score < 90 THEN "High"
  ELSE "Critical"

\* _SEVERITY_BONUS.get(str(label), 0)
_SEVERITY_BONUS(label) ==
  CASE label = "Low" -> 1
    [] label = "Medium" -> 3
    [] label = "High" -> 6
    [] label = "Critical" -> 10
    [] OTHER -> 0

\* _healthscore_to_risk_points: -1 stands for None (value not parseable),
\* -2 for the ValueError of int(round(nan)).
_healthscore_to_risk_points(value) ==
  IF value = NoHealthValue THEN -1
  ELSE IF value = NaNHealthValue THEN -2
  ELSE Max(0, Min(20, RoundHalfEven(1000 - Max(0, Min(1000, value)), 50)))

\* _extract_dependency_plugin_ids: the stripped non-empty names, sorted.
_extract_dependency_plugin_ids(snapshot) ==
  LET deps == snapshot.plugin_api.dependencies
  IN  SortedTexts({ Strip(deps[i]) : i \in { j \in 1..Len(deps) : Truthy(deps[j]) } }
                    \ { << >> })

\* The parsed dates of a list of advisory records.
AdvisoryDates(advisories) ==
  SelectSeq([ i \in 1..Len(advisories) |-> _parse_date(advisories[i].published_date) ],
            LAMBDA d : d # 0)

\* max(dates) if dates else None
LatestDate(dates) ==
  IF dates = << >> THEN 0 ELSE MaxOfSet(Range(dates))

\* max over all records of _advisory_record_max_cvss, -1 when there is none.
MaxCvssOverall(advisories) ==
  LET Best(scores) == IF scores = {} THEN -1 ELSE MaxOfSet(scores)
  IN  Best({ _advisory_record_max_cvss(advisories[i]) : i \in 1..Len(advisories) } \ { -1 })

CountActive(sec_warnings) ==
  Cardinality({ i \in 1..Len(sec_warnings) : sec_warnings[i] = "true" })

\* The health points of a dependency: round((100 - hv) / 25) in 0..4.
DependencyHealthPoints(hs_value) ==
  IF hs_value = NoHealthValue THEN 0
  ELSE IF hs_value = NaNHealthValue THEN 0
  ELSE Max(0, Min(4, RoundHalfEven(1000 - Max(0, Min(1000, hs_value)), 250)))

\* Mutation of _dependency_points: the dependencies that the dependency's
\* own snapshot declares add 2 points each.
_dependency_points_Transitive(dep_id, data_dir, today, prefer_real) ==
  LET Points(advisory_count, recent_365, max_cvss, active_warn, hs_value) ==
        (IF advisory_count > 0 THEN Min(10, advisory_count * 2) ELSE 0)
          + (IF max_cvss = -1 THEN 0
             ELSE IF max_cvss >= 90 THEN 6
             ELSE IF max_cvss >= 70 THEN 4
             ELSE IF max_cvss >= 40 THEN 2
             ELSE 0)
          + (IF recent_365 THEN 3 ELSE 0)
          + (IF active_warn > 0 THEN Min(10, active_warn * 5) ELSE 0)
          + DependencyHealthPoints(hs_value)
          + 2 * Len(_extract_dependency_plugin_ids(_load_plugin_snapshot(dep_id, data_dir)))
      Details(advisory_count, latest_adv, recent_365, max_cvss, total_warn,
              active_warn, hs_value) ==
        [ plugin_id |-> dep_id,
          advisory_count |-> advisory_count,
          latest_advisory_date |-> latest_adv,
          recent_advisory_365d |-> recent_365,
          max_cvss |-> max_cvss,
          security_warning_count |-> total_warn,
          active_security_warning_count |-> active_warn,
          healthscore |-> hs_value,
          risk_points |-> Points(advisory_count, recent_365, max_cvss, active_warn,
                                 hs_value) ]
      Dated(advisories, latest_adv, dep_snapshot, sec_warnings, hs) ==
        Details(Len(advisories), latest_adv,
                latest_adv # 0 /\ today - latest_adv <= 365,
                MaxCvssOverall(advisories),
                IF dep_snapshot.exists THEN Len(sec_warnings) ELSE 0,
                IF dep_snapshot.exists THEN CountActive(sec_warnings) ELSE 0,
                IF hs.exists THEN hs.value ELSE NoHealthValue)
      Loaded(advisories, dep_snapshot, hs) ==
        Dated(advisories, LatestDate(AdvisoryDates(advisories)), dep_snapshot,
              dep_snapshot.plugin_api.securityWarnings, hs)
  IN  Loaded(_load_advisories_for_plugin(dep_id, data_dir, prefer_real),
             _load_plugin_snapshot(dep_id, data_dir),
             _load_healthscore_record(dep_id, data_dir))

\* _dependency_points: the details record of one dependency; its risk_points
\* field is the returned points.
_dependency_points(dep_id, data_dir, today, prefer_real) ==
  LET Points(advisory_count, recent_365, max_cvss, active_warn, hs_value) ==
        (IF advisory_count > 0 THEN Min(10, advisory_count * 2) ELSE 0)
          + (IF max_cvss = -1 THEN 0
             ELSE IF max_cvss >= 90 THEN 6
             ELSE IF max_cvss >= 70 THEN 4
             ELSE IF max_cvss >= 40 THEN 2
             ELSE 0)
          + (IF recent_365 THEN 3 ELSE 0)
          + (IF active_warn > 0 THEN Min(10, active_warn * 5) ELSE 0)
          + DependencyHealthPoints(hs_value)
      Details(advisory_count, latest_adv, recent_365, max_cvss, total_warn,
              active_warn, hs_value) ==
        [ plugin_id |-> dep_id,
          advisory_count |-> advisory_count,
          latest_advisory_date |-> latest_adv,
          recent_advisory_365d |-> recent_365,
          max_cvss |-> max_cvss,
          security_warning_count |-> total_warn,
          active_security_warning_count |-> active_warn,
          healthscore |-> hs_value,
          risk_points |-> Points(advisory_count, recent_365, max_cvss, active_warn,
                                 hs_value) ]
      Dated(advisories, latest_adv, dep_snapshot, sec_warnings, hs) ==
        Details(Len(advisories), latest_adv,
                latest_adv # 0 /\ today - latest_adv <= 365,
                MaxCvssOverall(advisories),
                IF dep_snapshot.exists THEN Len(sec_warnings) ELSE 0,
                IF dep_snapshot.exists THEN CountActive(sec_warnings) ELSE 0,
                IF hs.exists THEN hs.value ELSE NoHealthValue)
      Loaded(advisories, dep_snapshot, hs) ==
        Dated(advisories, LatestDate(AdvisoryDates(advisories)), dep_snapshot,
              dep_snapshot.plugin_api.securityWarnings, hs)
  IN  Loaded(_load_advisories_for_plugin(dep_id, data_dir, prefer_real),
             _load_plugin_snapshot(dep_id, data_dir),
             _load_healthscore_record(dep_id, data_dir))

\* The sort key (risk_points, max_cvss or 0) of a details record.
DepKeyLess(a, b) ==
  LET Less(ac, bc) ==
        \/ a.risk_points < b.risk_points
        \/ a.risk_points = b.risk_points /\ ac < bc
  IN  Less(IF a.max_cvss = -1 THEN 0 ELSE a.max_cvss,
           IF b.max_cvss = -1 THEN 0 ELSE b.max_cvss)

\* dep_points_pairs.sort(key=..., reverse=True): stable, descending.
RECURSIVE SortDepsDescending(_)
SortDepsDescending(dets) ==
  LET Placed(front, x, n) == Take(front, n) \o << x >> \o Drop(front, n)
      Insert(front, x) ==
        Placed(front, x,
               Cardinality({ i \in 1..Len(front) : ~DepKeyLess(front[i], x) }))
  IN  IF dets = << >> THEN << >>
      ELSE Insert(SortDepsDescending(Take(dets, Len(dets) - 1)), dets[Len(dets)])

RECURSIVE SumRiskPoints(_)
SumRiskPoints(dets) ==
  IF dets = << >> THEN 0 ELSE dets[1].risk_points + SumRiskPoints(Tail(dets))

\* top_n
TopN == 5

\* Mutation of DependencyCap: the sum is not capped.
DependencyCap_Uncapped(dep_points_sum) == Max(0, dep_points_sum)

\* dep_points = max(0, min(20, dep_points_sum))
DependencyCap(dep_points_sum) == Max(0, Min(20, dep_points_sum))

Reason(tag, nums, texts) == [ tag |-> tag, nums |-> nums, texts |-> texts ]

\* Mutation of core_keywords: ldap is not a keyword.
core_keywords_NoLdap ==
  << << "c", "r", "e", "d", "e", "n", "t", "i", "a", "l", "s" >>,
     << "s", "e", "c", "u", "r", "i", "t", "y" >>,
     << "a", "u", "t", "h" >>,
     << "o", "a", "u", "t", "h" >>,
     << "s", "a", "m", "l" >> >>

core_keywords ==
  << << "c", "r", "e", "d", "e", "n", "t", "i", "a", "l", "s" >>,
     << "s", "e", "c", "u", "r", "i", "t", "y" >>,
     << "a", "u", "t", "h" >>,
     << "o", "a", "u", "t", "h" >>,
     << "s", "a", "m", "l" >>,
     << "l", "d", "a", "p" >> >>

scm_keywords ==
  << << "g", "i", "t" >>,
     << "s", "v", "n" >>,
     << "s", "c", "m" >>,
     << "g", "i", "t", "h", "u", "b" >>,
     << "b", "i", "t", "b", "u", "c", "k", "e", "t" >> >>

MatchedKeywords(keywords, name) ==
  SelectSeq(keywords, LAMBDA k : IsSubstring(k, name))

\* The dependency rollup of lines 606-687: the details of every dependency
\* in dep_ids order, the capped top-N sum and the summary features.
DependencyRollup(dep_ids, data_dir, today, real) ==
  LET Worst(dets, scored) ==
        IF scored = {} THEN 0
        ELSE CHOOSE i \in scored :
               \A j \in scored :
                 \/ dets[j].max_cvss < dets[i].max_cvss
                 \/ dets[j].max_cvss = dets[i].max_cvss /\ i <= j
      Summary(dets, top, worst) ==
        LET count(P(_)) == Cardinality({ i \in 1..Len(dets) : P(i) })
        IN  [ dep_points |-> DependencyCap(SumRiskPoints(top)),
              dependency_risk_summary |->
                [ deps_with_any_advisory |-> count(LAMBDA i : dets[i].advisory_count > 0),
                  deps_with_recent_advisory_365d |->
                    count(LAMBDA i : dets[i].recent_advisory_365d),
                  deps_with_active_warning |->
                    count(LAMBDA i : dets[i].active_security_warning_count > 0),
                  worst_dep_max_cvss |-> IF worst = 0 THEN -1 ELSE dets[worst].max_cvss,
                  worst_dep_id |-> IF worst = 0 THEN None ELSE dep_ids[worst],
                  worst_dep_latest_advisory_date |->
                    IF worst = 0 THEN 0 ELSE dets[worst].latest_advisory_date ],
              dependency_missing_data |->
                [ snapshot_missing |->
                    count(LAMBDA i : ~_load_plugin_snapshot(dep_ids[i], data_dir).exists),
                  advisories_missing |->
                    count(LAMBDA i :
                            /\ _load_advisories_for_plugin(dep_ids[i], data_dir, real) = << >>
                            /\ ~AdvisoriesFileExists(dep_ids[i], data_dir)),
                  healthscore_missing |->
                    count(LAMBDA i : ~_load_healthscore_record(dep_ids[i], data_dir).exists) ],
              dependency_details_top |-> SelectSeq(top, LAMBDA d : d.risk_points > 0) ]
      Ranked(dets, sorted) ==
        Summary(dets, Take(sorted, Min(TopN, Len(sorted))),
                Worst(dets, { i \in 1..Len(dets) : dets[i].max_cvss # -1 }))
      Scored(dets) == Ranked(dets, SortDepsDescending(dets))
  IN  Scored([ i \in 1..Len(dep_ids) |->
                 _dependency_points(dep_ids[i], data_dir, today, real) ])

\* The rollup features when there is no snapshot (lines 523-545).
NoRollup ==
  [ dep_points |-> 0,
    dependency_risk_summary |->
      [ deps_with_any_advisory |-> 0, deps_with_recent_advisory_365d |-> 0,
        deps_with_active_warning |-> 0, worst_dep_max_cvss |-> -1,
        worst_dep_id |-> None, worst_dep_latest_advisory_date |-> 0 ],
    dependency_missing_data |->
      [ snapshot_missing |-> 0, advisories_missing |-> 0, healthscore_missing |-> 0 ],
    dependency_details_top |-> << >> ]

RECURSIVE SeverityPointsRaw(_)
SeverityPointsRaw(advisories) ==
  IF advisories = << >> THEN 0
  ELSE _SEVERITY_BONUS(_cvss_base_score_to_label(_advisory_record_max_cvss(advisories[1])))
         + SeverityPointsRaw(Tail(advisories))

\* Optional reason: a one-element sequence when cond holds.
When(cond, reason) == IF cond THEN << reason >> ELSE << >>

\* Mutation of DefaultFloor: a zero total is left as it is.
DefaultFloor_Off(score) == score

\* if score == 0: score = 5
DefaultFloor(score) == IF score = 0 THEN 5 ELSE score

\* Mutation of FinalClamp: the total is returned as it is.
FinalClamp_Off(score) == score

\* score = max(0, min(100, score))
FinalClamp(score) == Max(0, Min(100, score))

\* The name signal (lines 400-420): the points and reasons of the keywords
\* found in the normalised plugin name.
NameSignal(name) ==
  LET Matched(matched_core, matched_scm) ==
        [ score |-> (IF matched_core # << >> THEN 20 ELSE 0)
                      + (IF matched_scm # << >> THEN 10 ELSE 0),
          reasons |->
            When(matched_core # << >>,
                 Reason("Name suggests auth/security surface area (baseline heuristic).",
                        << >>, << >>))
            \o When(matched_scm # << >>,
                    Reason("Name suggests SCM/integration surface area (baseline heuristic).",
                           << >>, << >>)),
          matched_core_keywords |-> matched_core,
          matched_scm_keywords |-> matched_scm ]
  IN  Matched(MatchedKeywords(core_keywords, name), MatchedKeywords(scm_keywords, name))

\* The advisory signal (lines 422-508): history, recency against today and
\* severity points of the plugin's own advisories, with their reasons.
AdvisorySignal(advisories, today) ==
  LET Reasons(advisory_count, within_90, within_365, max_cvss_overall, sev_label,
              base_points, recency_points, severity_points) ==
        IF advisory_count > 0
        THEN << Reason("advisory record(s) found for this plugin.", << advisory_count >>, << >>),
                Reason("Advisory history", << base_points >>, << >>) >>
             \o (IF within_365 > 0
                 THEN << IF within_90 > 0
                         THEN Reason("Recent advisories (within 90d, within 365d)",
                                     << recency_points, within_90, within_365 - within_90 >>, << >>)
                         ELSE Reason("Recent advisories (within 365d)",
                                     << recency_points, within_365 >>, << >>),
                         Reason("Recent advisory activity (<= 365 days).", << >>, << >>) >>
                 ELSE << Reason("No advisory activity in the last 365 days (recency bonus = 0).",
                                << >>, << >>) >>)
             \o When(severity_points > 0,
                     IF sev_label # ""
                     THEN Reason("Advisory severity (CVSS, max observed: " \o sev_label \o ")",
                                 << severity_points, max_cvss_overall >>, << >>)
                     ELSE Reason("Advisory severity (CVSS)", << severity_points >>, << >>))
        ELSE << Reason("No advisories found in local dataset (yet).", << >>, << >>) >>
      Signal(advisory_count, latest_date, within_90, within_365, max_cvss_overall,
             sev_label, base_points, recency_points, severity_points) ==
        [ points |-> IF advisory_count > 0
                     THEN base_points + recency_points + severity_points ELSE 0,
          reasons |-> Reasons(advisory_count, within_90, within_365, max_cvss_overall,
                              sev_label, base_points, recency_points, severity_points),
          advisory_count |-> advisory_count,
          latest_advisory_date |-> latest_date,
          days_since_latest_advisory |-> IF latest_date = 0 THEN -1 ELSE today - latest_date,
          advisory_within_90d |-> within_90,
          advisory_within_365d |-> within_365,
          had_advisory_within_365d |-> within_365 > 0,
          max_cvss_base_score_observed |-> max_cvss_overall,
          max_cvss_severity_label_observed |-> sev_label ]
      Counted(advisory_count, latest_date, within_90, within_365, max_cvss_overall) ==
        Signal(advisory_count, latest_date, within_90, within_365, max_cvss_overall,
               _cvss_base_score_to_label(max_cvss_overall),
               Min(20, advisory_count * 2),
               Min(40, within_90 * 20 + Max(0, within_365 - within_90) * 10),
               Min(30, SeverityPointsRaw(advisories)))
      Within(advisory_dates, n) ==
        Cardinality({ i \in 1..Len(advisory_dates) : today - advisory_dates[i] <= n })
      Dated(advisory_dates) ==
        Counted(Len(advisories), LatestDate(advisory_dates), Within(advisory_dates, 90),
                Within(advisory_dates, 365), MaxCvssOverall(advisories))
  IN  Dated(AdvisoryDates(advisories))

\* The snapshot signal (lines 547-603) applied to the running score: active
\* warnings, dependency count and release recency.  raised is TRUE when the
\* release timestamp carries no offset, so that subtracting it from the
\* aware now raises.
SnapshotSignal(snapshot, score, today) ==
  LET Reasons(required_core, dep_count, warn_count, active_warn, release_ts,
              has_release, recent_release) ==
        When(Truthy(required_core), Reason("Requires Jenkins core", << >>, << required_core >>))
        \o When(dep_count > 0, Reason("Declares plugin dependency(ies)", << dep_count >>, << >>))
        \o When(warn_count > 0,
                IF active_warn = 0
                THEN Reason("security warning(s) listed (none active).", << warn_count >>, << >>)
                ELSE Reason("security warning(s) listed (active)",
                            << warn_count, active_warn >>, << >>))
        \o When(has_release, Reason("Latest release is", << release_ts.day >>, << >>))
        \o When(active_warn > 0,
                Reason("Active security warning(s) significantly increase risk.", << >>, << >>))
        \o When(recent_release,
                Reason("Recent release activity suggests active maintenance.", << >>, << >>))
      Released(after_deps, recent_release) ==
        IF recent_release THEN Max(0, after_deps - 3) ELSE after_deps
      Signal(required_core, dep_count, warn_count, active_warn, release_ts,
             has_release, days_since_release, recent_release) ==
        [ score |-> Released(score + Min(60, active_warn * 20)
                               + (IF dep_count >= 10 THEN 5
                                  ELSE IF dep_count >= 5 THEN 3 ELSE 0),
                             recent_release),
          raised |-> has_release /\ ~release_ts.aware,
          reasons |-> Reasons(required_core, dep_count, warn_count, active_warn,
                              release_ts, has_release, recent_release),
          required_core |-> required_core,
          dependency_count |-> dep_count,
          security_warning_count |-> warn_count,
          active_security_warning_count |-> active_warn,
          release_timestamp |-> release_ts.day,
          days_since_release |-> IF has_release THEN << days_since_release >> ELSE << >> ]
      Timed(api, has_release, days_since_release) ==
        Signal(api.requiredCore, Len(api.dependencies), Len(api.securityWarnings),
               CountActive(api.securityWarnings), api.releaseTimestamp,
               has_release, days_since_release,
               has_release /\ days_since_release <= 180)
      Api(api) ==
        Timed(api, api.releaseTimestamp.day # 0, today - api.releaseTimestamp.day)
  IN  Api(snapshot.plugin_api)

\* The reasons of the dependency rollup (lines 692-712).
DependencyReasons(dep_ids, rollup) ==
  LET Reasons(summary, dep_points) ==
        IF dep_ids = << >> THEN << >>
        ELSE << Reason("Dependency plugins declared.", << Len(dep_ids) >>, << >>) >>
             \o When(summary.deps_with_any_advisory > 0 \/ summary.deps_with_active_warning > 0,
                     IF Truthy(summary.worst_dep_id)
                     THEN Reason("Dependency risk: worst is",
                                 << summary.deps_with_any_advisory, summary.worst_dep_max_cvss,
                                    summary.worst_dep_latest_advisory_date >>,
                                 << summary.worst_dep_id >>)
                     ELSE Reason("Dependency risk: deps have active warnings.",
                                 << summary.deps_with_any_advisory,
                                    summary.deps_with_active_warning >>, << >>))
             \o When(dep_points > 0,
                     Reason("Dependency risk contribution", << dep_points, TopN >>, << >>))
  IN  Reasons(rollup.dependency_risk_summary, rollup.dep_points)

\* The health signal (lines 714-735).  raised is TRUE when the value is NaN,
\* so that int(round(...)) raises.
HealthSignal(hs) ==
  LET Signal(pts) ==
        [ points |-> IF hs.exists /\ pts >= 0 THEN pts ELSE 0,
          raised |-> hs.exists /\ pts = -2,
          reasons |->
            IF hs.exists
            THEN IF pts >= 0
                 THEN << Reason("Health score", << hs.value, pts >>, << >>) >>
                 ELSE << Reason("Health score record present but value was not parseable.",
                                << >>, << >>) >>
            ELSE << Reason("No health score record found in local dataset (yet).",
                           << >>, << >>) >>,
          healthscore_value |-> IF hs.exists THEN hs.value ELSE NoHealthValue ]
  IN  Signal(_healthscore_to_risk_points(hs.value))

\* Whether one of the loads of score_plugin_baseline raises: the plugin's
\* advisories (line 424), its snapshot (line 511) and, for every declared
\* dependency of an existing snapshot, the dependency's advisories and
\* snapshot (lines 66, 85, 633, 635).  None of the calls is guarded.
LoadRaises(plugin_id, data_dir, real) ==
  LET Dependencies(dep_ids) ==
        \E k \in 1..Len(dep_ids) :
          \/ AdvisoriesLoadRaises(dep_ids[k], data_dir, real)
          \/ SnapshotLoadRaises(dep_ids[k], data_dir)
      Own(snapshot) ==
        snapshot.exists /\ Dependencies(_extract_dependency_plugin_ids(snapshot))
  IN  \/ AdvisoriesLoadRaises(plugin_id, data_dir, real)
      \/ SnapshotLoadRaises(plugin_id, data_dir)
      \/ Own(_load_plugin_snapshot(plugin_id, data_dir))

\* What the body leaves behind when a load raised: nothing was computed.
LoadFailure == [ raised |-> TRUE, total |-> 0, reasons |-> << >>, features |-> << >> ]

\* The body of score_plugin_baseline up to the health signal (lines 400-735):
\* the running total, the reasons so far and the features.  raised is TRUE
\* when the body raises (a file that is not valid JSON, a timestamp without
\* offset subtracted from an aware now, or a NaN health value).
ScoreSignals(plugin, data_dir, real, today) ==
  LET Combined(name, advisory, snapshot, snap, dep_ids, rollup, health) ==
        [ raised |-> (snapshot.exists /\ snap.raised) \/ health.raised,
          total |-> (IF snapshot.exists THEN snap.score + rollup.dep_points
                     ELSE name.score + advisory.points) + health.points,
          reasons |-> name.reasons
                      \o advisory.reasons
                      \o (IF snapshot.exists
                          THEN snap.reasons \o DependencyReasons(dep_ids, rollup)
                          ELSE << >>)
                      \o health.reasons,
          features |->
            [ matched_core_keywords |-> name.matched_core_keywords,
              matched_scm_keywords |-> name.matched_scm_keywords,
              advisory_count |-> advisory.advisory_count,
              latest_advisory_date |-> advisory.latest_advisory_date,
              days_since_latest_advisory |-> advisory.days_since_latest_advisory,
              advisory_within_90d |-> advisory.advisory_within_90d,
              advisory_within_365d |-> advisory.advisory_within_365d,
              had_advisory_within_365d |-> advisory.had_advisory_within_365d,
              max_cvss_base_score_observed |-> advisory.max_cvss_base_score_observed,
              max_cvss_severity_label_observed |-> advisory.max_cvss_severity_label_observed,
              has_plugin_snapshot |-> snapshot.exists,
              required_core |-> IF snapshot.exists THEN snap.required_core ELSE None,
              dependency_count |-> IF snapshot.exists THEN snap.dependency_count ELSE 0,
              security_warning_count |->
                IF snapshot.exists THEN snap.security_warning_count ELSE 0,
              active_security_warning_count |->
                IF snapshot.exists THEN snap.active_security_warning_count ELSE 0,
              release_timestamp |-> IF snapshot.exists THEN snap.release_timestamp ELSE 0,
              days_since_release |->
                IF snapshot.exists THEN snap.days_since_release ELSE << >>,
              dependency_plugins |-> IF snapshot.exists THEN dep_ids ELSE << >>,
              dependency_total |-> IF snapshot.exists THEN Len(dep_ids) ELSE 0,
              dependency_risk_points |-> rollup.dep_points,
              dependency_risk_summary |-> rollup.dependency_risk_summary,
              dependency_missing_data |-> rollup.dependency_missing_data,
              dependency_details_top |-> rollup.dependency_details_top,
              healthscore_value |-> health.healthscore_value ] ]
      Rolled(name, advisory, snapshot, dep_ids, health) ==
        Combined(name, advisory, snapshot,
                 SnapshotSignal(snapshot, name.score + advisory.points, today),
                 dep_ids,
                 IF snapshot.exists
                 THEN DependencyRollup(dep_ids, data_dir, today, real) ELSE NoRollup,
                 health)
      Loaded(name, advisory, snapshot, health) ==
        Rolled(name, advisory, snapshot, _extract_dependency_plugin_ids(snapshot), health)
      Named(plugin_id) ==
        Loaded(NameSignal(plugin_id),
               AdvisorySignal(_load_advisories_for_plugin(plugin_id, data_dir, real), today),
               _load_plugin_snapshot(plugin_id, data_dir),
               HealthSignal(_load_healthscore_record(plugin_id, data_dir)))
      Checked(plugin_id) ==
        IF LoadRaises(plugin_id, data_dir, real) THEN LoadFailure
        ELSE Named(plugin_id)
  IN  Checked(Strip(Lower(plugin)))

\* What a call that raised leaves behind: no ScoreResult.
NoResult == [ raised |-> TRUE ]

\* Mutation of ScoreResult: the default reason is put in front.
ScoreResult_FloorFirst(plugin, s) ==
      IF s.raised THEN NoResult
      ELSE [ raised |-> FALSE,
             plugin |-> plugin,
             score |-> FinalClamp(DefaultFloor(s.total)),
             reasons |-> When(s.total = 0,
                              Reason("No heuristics matched (baseline default).",
                                     << >>, << >>))
                           \o s.reasons,
             features |-> s.features ]

\* The end of score_plugin_baseline (lines 736-741): the default floor and
\* the final clamp applied to the running total of the signals s.
ScoreResult(plugin, s) ==
      IF s.raised THEN NoResult
      ELSE [ raised |-> FALSE,
             plugin |-> plugin,
             score |-> FinalClamp(DefaultFloor(s.total)),
             reasons |-> s.reasons
                           \o When(s.total = 0,
                                   Reason("No heuristics matched (baseline default).",
                                          << >>, << >>)),
             features |-> s.features ]

score_plugin_baseline(plugin, data_dir, real, today) ==
  ScoreResult(plugin, ScoreSignals(plugin, data_dir, real, today))

\* ------------------------------------------------------------------------
\* CVSS vector evaluator (collector)
\* ------------------------------------------------------------------------
\* Scores, weights and sub-scores are fixed-point numbers with eight
\* decimals (One stands for 1.0); a returned base score is in tenths, -1
\* standing for None.  Every product is cut to eight decimals, which moves a
\* raw score by less than 0.000001.

Limb == 10 ^ 4

One == Limb * Limb

Hundredth == One \div 100

\* x * y on eight-decimal numbers, computed on four-digit limbs so that no
\* intermediate value leaves the 32-bit range.
FixMul(x, y) ==
  LET Product(xh, xl, yh, yl) ==
        xh * yh + ((xh * yl + xl * yh) + ((xl * yl) \div Limb)) \div Limb
  IN  Product(x \div Limb, x % Limb, y \div Limb, y % Limb)

\* x ** n
RECURSIVE FixPow(_, _)
FixPow(x, n) == IF n = 1 THEN x ELSE FixMul(x, FixPow(x, n - 1))

\* _cvss_base_score_to_severity_label (collector): "" stands for None.
_cvss_base_score_to_severity_label(score) ==
  IF score = -1 THEN ""
  ELSE IF score <= 0 THEN "none"
  ELSE IF score < 40 THEN "low"
  ELSE IF score < 70 THEN "medium"
  ELSE IF score < 90 THEN "high"
  ELSE "critical"

\* str.split(sep) for a one-character separator.
RECURSIVE Split(_, _)
Split(s, sep) ==
  IF ~Contains(s, sep) THEN << s >>
  ELSE << Take(s, Find(s, sep) - 1) >> \o Split(Drop(s, Find(s, sep)), sep)

\* metrics.get(k) after the loop over parts[1:]: the text behind the first
\* colon of the last part whose key is k, Absent when there is none.
MetricValue(parts, k) ==
  LET Value(p) == Drop(p, Find(p, ":"))
      Last(hits) == IF hits = {} THEN Absent ELSE Value(parts[MaxOfSet(hits)])
  IN  Last({ j \in 2..Len(parts) :
               /\ Contains(parts[j], ":")
               /\ Take(parts[j], Find(parts[j], ":") - 1) = k })

av_w ==
  << "N" >> :> 85 * Hundredth @@ << "A" >> :> 62 * Hundredth
    @@ << "L" >> :> 55 * Hundredth @@ << "P" >> :> 20 * Hundredth

ac_w == << "L" >> :> 77 * Hundredth @@ << "H" >> :> 44 * Hundredth

ui_w == << "N" >> :> 85 * Hundredth @@ << "R" >> :> 62 * Hundredth

cia_w ==
  << "N" >> :> 0 @@ << "L" >> :> 22 * Hundredth @@ << "H" >> :> 56 * Hundredth

pr_u ==
  << "N" >> :> 85 * Hundredth @@ << "L" >> :> 62 * Hundredth
    @@ << "H" >> :> 27 * Hundredth

pr_c ==
  << "N" >> :> 85 * Hundredth @@ << "L" >> :> 68 * Hundredth
    @@ << "H" >> :> 50 * Hundredth

\* _cvss3_round_up_1_decimal, in tenths: math.ceil(x * 10.0 + 1e-10).  For x
\* of at most eight decimals x * 10.0 + 1e-10 is never a whole number, so its
\* ceiling is one more than the whole part of x * 10.0.
_cvss3_round_up_1_decimal(x) == x \div (One \div 10) + 1

\* The body of _cvss3_base_score up to the rounding (lines 367-413):
\* parsed is FALSE when None is returned, impact and raw are the impact
\* sub-score and the capped value handed to _cvss3_round_up_1_decimal
\* (raw is 0 when impact <= 0).
Cvss3Raw(vector) ==
  LET Unparsed == [ parsed |-> FALSE, impact |-> 0, raw |-> 0 ]
      Capped(s, exploitability, impact) ==
        [ parsed |-> TRUE, impact |-> impact,
          raw |-> IF impact <= 0 THEN 0
                  ELSE IF s = << "C" >>
                  THEN Min(FixMul(108 * Hundredth, impact + exploitability), 10 * One)
                  ELSE Min(impact + exploitability, 10 * One) ]
      Impact(s, exploitability, isc_base) ==
        Capped(s, exploitability,
               IF s = << "C" >>
               THEN FixMul(752 * Hundredth, isc_base - 29 * (One \div 1000))
                      - FixMul(325 * Hundredth, FixPow(isc_base - 2 * Hundredth, 15))
               ELSE FixMul(642 * Hundredth, isc_base))
      Weighted(s, av, ac, pr, ui, c, i, a) ==
        Impact(s, FixMul(FixMul(FixMul(FixMul(822 * Hundredth, av), ac), pr), ui),
               One - FixMul(FixMul(One - c, One - i), One - a))
      Looked(s, pr_w, AV, AC, PR, UI, C, I, A) ==
        IF /\ AV \in DOMAIN av_w
           /\ AC \in DOMAIN ac_w
           /\ UI \in DOMAIN ui_w
           /\ PR \in DOMAIN pr_w
           /\ C \in DOMAIN cia_w
           /\ I \in DOMAIN cia_w
           /\ A \in DOMAIN cia_w
        THEN Weighted(s, av_w[AV], ac_w[AC], pr_w[PR], ui_w[UI],
                      cia_w[C], cia_w[I], cia_w[A])
        ELSE Unparsed
      Scoped(parts, s) ==
        Looked(s, IF s = << "C" >> THEN pr_c ELSE pr_u,
               MetricValue(parts, << "A", "V" >>), MetricValue(parts, << "A", "C" >>),
               MetricValue(parts, << "P", "R" >>), MetricValue(parts, << "U", "I" >>),
               MetricValue(parts, << "C" >>), MetricValue(parts, << "I" >>),
               MetricValue(parts, << "A" >>))
      Parts(parts) == Scoped(parts, MetricValue(parts, << "S" >>))
  IN  IF ~StartsWith(vector, << "C", "V", "S", "S", ":", "3" >>) THEN Unparsed
      ELSE Parts(Split(vector, "/"))

\* _cvss3_base_score: the base score in tenths, -1 for None.
_cvss3_base_score(vector) ==
  LET Scored(r) ==
        IF ~r.parsed THEN -1
        ELSE IF r.impact <= 0 THEN 0
        ELSE _cvss3_round_up_1_decimal(r.raw)
  IN  Scored(Cvss3Raw(vector))

\* ------------------------------------------------------------------------
\* collect_plugins_registry_real
\* ------------------------------------------------------------------------

\* A plugin object of a page is a record with the fields
\*   dict (FALSE for a JSON value that is no object), name, pluginId, id,
\*   artifactId (texts, None when the key is missing or no text).
\* A payload is a record with the fields
\*   shape ("dict", "list", or "other" for any other JSON value),
\*   plugins (the list of objects; of a dict, the value at "plugins"),
\*   total (the text str() gives the value at "total", None without one),
\*   next (the text at "next", None without one).

_extract_plugin_id(plugin_obj) ==
  LET Usable(v) == v # None /\ Strip(v) # << >>
      Value(k) == << plugin_obj.name, plugin_obj.pluginId,
                     plugin_obj.id, plugin_obj.artifactId >>[k]
  IN  IF \E k \in 1..4 : Usable(Value(k))
      THEN Strip(Value(CHOOSE k \in 1..4 :
                         Usable(Value(k)) /\ \A j \in 1..(k - 1) : ~Usable(Value(j))))
      ELSE None

\* << >> stands for None, returned when the object has no usable id.
_plugin_to_registry_record(plugin_obj) ==
  IF _extract_plugin_id(plugin_obj) = None THEN << >>
  ELSE << [ plugin_id |-> _extract_plugin_id(plugin_obj) ] >>

\* int(t) of a text of decimal digits.
RECURSIVE DecimalValue(_)
DecimalValue(t) ==
  IF t = << >> THEN 0
  ELSE 10 * DecimalValue(Take(t, Len(t) - 1)) + DigitVal(t[Len(t)])

\* total of a page: << >> stands for None.
PageTotal(payload) ==
  IF /\ payload.shape = "dict"
     /\ payload.total # None
     /\ payload.total # << >>
     /\ \A i \in 1..Len(payload.total) : payload.total[i] \in DigitChars
  THEN << DecimalValue(payload.total) >>
  ELSE << >>

\* next_url of a page: None unless the page is a dict with an https link.
PageNext(payload) ==
  IF /\ payload.shape = "dict"
     /\ payload.next # None
     /\ StartsWith(payload.next, T_https \o << ":", "/", "/" >>)
  THEN payload.next
  ELSE None

\* The registry records of the objects of a page, in order.
RECURSIVE PageRecords(_)
PageRecords(plugins_list) ==
  IF plugins_list = << >> THEN << >>
  ELSE (IF plugins_list[1].dict THEN _plugin_to_registry_record(plugins_list[1])
        ELSE << >>)
       \o PageRecords(Tail(plugins_list))

\* One iteration of the while loop on the payload fetched: the position
\* after it ("loop" when the loop goes round again) and the new values of
\* offset, next_url and registry. max_plugins is << >> for None.
LoopIteration(page_size, max_plugins, offset, registry, payload) ==
  LET Paged(recs, n, total, next_url) ==
        IF next_url # None
        THEN [ rpc |-> "loop", offset |-> offset, next_url |-> next_url,
               registry |-> registry \o recs ]
        ELSE IF (IF total # << >> THEN offset + n >= total[1] ELSE n < page_size)
        THEN [ rpc |-> "returned", offset |-> offset, next_url |-> next_url,
               registry |-> registry \o recs ]
        ELSE [ rpc |-> "loop", offset |-> offset + n, next_url |-> next_url,
               registry |-> registry \o recs ]
      Capped(recs, n, total, next_url) ==
        IF max_plugins # << >> /\ recs # << >>
             /\ Len(registry) + Len(recs) >= max_plugins[1]
        THEN [ rpc |-> "returned", offset |-> offset, next_url |-> next_url,
               registry |-> registry \o
                 Take(recs, Max(1, max_plugins[1] - Len(registry))) ]
        ELSE Paged(recs, n, total, next_url)
  IN  IF payload.shape = "other"
      THEN [ rpc |-> "raised", offset |-> offset, next_url |-> None,
             registry |-> registry ]
      ELSE Capped(PageRecords(payload.plugins), Len(payload.plugins),
                  PageTotal(payload), PageNext(payload))

\* ------------------------------------------------------------------------
\* Inputs of the merge
\* ------------------------------------------------------------------------

\* Largest number of raw records handed to one merge.
MaxRecords == 3

D1 == << "2", "0", "2", "4", "-", "0", "1", "-", "0", "1" >>

D2 == << "2", "0", "2", "4", "-", "0", "1", "-", "0", "2" >>

D3 == << "2", "0", "2", "4", "-", "0", "1", "-", "0", "3" >>

S1 == << "S", "-", "1" >>

S2 == << "S", "-", "2" >>

S10 == << "S", "-", "1", "0" >>

\* http://jenkins.io/security/advisory/2024-01-02/?q#S-1
UrlBare ==
  T_http \o << ":", "/", "/" >> \o T_jenkins_io \o T_advisory_path \o D2
    \o << "/", "?", "q", "#" >> \o S1

\* https://www.jenkins.io/security/advisory/2024-01-02
UrlWww == T_https \o << ":", "/", "/" >> \o T_www_jenkins_io \o T_advisory_path \o D2

\* https://www.jenkins.io/b
UrlWwwOther == T_https \o << ":", "/", "/" >> \o T_www_jenkins_io \o << "/", "b" >>

\* https://m.io/a
UrlMirror == T_https \o << ":", "/", "/", "m", ".", "i", "o", "/", "a" >>

\* http://jenkins.io/x
UrlBareOther == T_http \o << ":", "/", "/" >> \o T_jenkins_io \o << "/", "x" >>

\* An invalid bracketed address.
UrlBad == << "/", "/", "[" >>

Vec1 == << "A", "V", ":", "N" >>

Vec2 == << "A", "V", ":", "L" >>

Finding(sid, label, src, frag, cvss) ==
  [ security_warning_id |-> sid, severity_label |-> label,
    severity_source |-> src, url_fragment |-> frag, cvss |-> cvss ]

Cvss(version, vector, score, url) ==
  [ present |-> TRUE, version |-> version, vector |-> vector,
    base_score |-> score, url |-> url ]

Summary(label, score) ==
  [ present |-> TRUE, max_severity_label |-> label, max_cvss_base_score |-> score ]

BaseRecord ==
  [ source |-> T_jenkins, type |-> T_advisory, plugin_id |-> << "p" >>,
    advisory_id |-> D2, published_date |-> Absent, title |-> Absent,
    url |-> Absent, security_warning_ids |-> << >>,
    active_security_warning |-> "absent", vulnerabilities |-> << >>,
    severity_summary |-> NoSummary, merged_from_count |-> 0 ]

\* The raw records an input is drawn from: duplicates reached through
\* different hosts, partial copies of one advisory, records of another
\* source or plugin, records without an id, a malformed url.
RecordCatalogue ==
  { [ BaseRecord EXCEPT
        !.url = UrlBare, !.advisory_id = Absent, !.title = << "T", "1" >>,
        !.security_warning_ids = << S2, S1, S2 >>,
        !.active_security_warning = "false",
        !.vulnerabilities = << Finding(S1, None, None, None, NoCvss) >> ],
    [ BaseRecord EXCEPT
        !.url = UrlMirror, !.published_date = D1, !.title = << "T", "2" >>,
        !.security_warning_ids = << S2 >>,
        !.active_security_warning = "true",
        !.vulnerabilities =
           << Finding(S1, << "h", "i", "g", "h" >>, << "a", "d", "v" >>,
                      UrlMirror \o << "#" >> \o S1,
                      Cvss(<< "3", ".", "0" >>, Vec1, 98, << "u" >>)),
              Finding(S2, << "l", "o", "w" >>, << "a", "d", "v" >>, None, NoCvss) >>,
        !.severity_summary = Summary(<< "c", "r", "i", "t", "i", "c", "a", "l" >>, 98) ],
    [ BaseRecord EXCEPT
        !.url = UrlWww, !.published_date = D3, !.title = << >>,
        !.vulnerabilities =
           << Finding(S2, << >>, << "c", "v", "s", "s" >>, None,
                      Cvss(<< "3", ".", "1" >>, None, -1, << >>)),
              Finding(S1, << "l", "o", "w" >>, None, UrlWww \o << "#" >> \o S1,
                      Cvss(None, Vec2, 44, None)),
              Finding(S2, None, None, None, NoCvss) >> ],
    [ BaseRecord EXCEPT !.url = UrlBad, !.title = << "T", "1" >> ],
    BaseRecord,
    [ BaseRecord EXCEPT
        !.source = << "n", "v", "d" >>, !.url = UrlBareOther ],
    [ BaseRecord EXCEPT
        !.source = << "n", "v", "d" >>, !.url = UrlWwwOther,
        !.security_warning_ids = << S2, S10 >>,
        !.active_security_warning = "true" ],
    [ BaseRecord EXCEPT !.source = << "n", "v", "d" >>, !.url = UrlBad ],
    [ BaseRecord EXCEPT !.advisory_id = None, !.url = UrlWwwOther ],
    [ BaseRecord EXCEPT !.advisory_id = Absent, !.published_date = D1 ],
    [ BaseRecord EXCEPT
        !.advisory_id = << >>, !.security_warning_ids = << S10 >> ],
    [ BaseRecord EXCEPT
        !.plugin_id = << "q" >>, !.url = UrlWww, !.advisory_id = Absent,
        !.vulnerabilities =
           << Finding(<< >>, << "l", "o", "w" >>, None, None, NoCvss),
              Finding(S1, None, None, None, NoCvss) >> ] }

RecordInputs == UNION { [ 1..n -> RecordCatalogue ] : n \in 0..MaxRecords }

\* ------------------------------------------------------------------------
\* Inputs of the scorer
\* ------------------------------------------------------------------------

\* Largest number of days the clock advances.
MaxTicks == 1

\* Largest number of calls of score_plugin_baseline on one dataset.
MaxCalls == 2

\* Largest number of dependencies declared by the plugin in DependencyInputs.
MaxDeps == 6

D0 == << "2", "0", "2", "3", "-", "0", "4", "-", "0", "2" >>

\* The day of the first call: D2 is 90 days back and D0 365 days back.
TodayStart == ToOrdinal(<< "2", "0", "2", "4", "-", "0", "4", "-", "0", "1" >>)

\* An advisory record with one finding that carries a CVSS base score.
Advisory(date, score) ==
  [ BaseRecord EXCEPT
      !.published_date = date,
      !.vulnerabilities = << Finding(S1, None, None, None, Cvss(None, None, score, None)) >> ]

File(lines) == [ exists |-> TRUE, lines |-> lines ]

Files(real_file, sample_file, bare_file) ==
  [ real |-> real_file, sample |-> sample_file, bare |-> bare_file ]

Snapshot(requiredCore, dependencies, securityWarnings, releaseTimestamp) ==
  [ exists |-> TRUE,
    plugin_api |-> [ requiredCore |-> requiredCore, dependencies |-> dependencies,
                     securityWarnings |-> securityWarnings,
                     releaseTimestamp |-> releaseTimestamp ] ]

Health(value) == [ exists |-> TRUE, value |-> value ]

NoRelease == [ day |-> 0, aware |-> TRUE ]

DepName(i) == << "d", Chars[8 + i] >>

ThreeCritical == << Advisory(D2, 98), Advisory(D3, 90), Advisory(D3, 100) >>

\* The plugin argument of a call: no keyword; a core and an scm keyword;
\* upper case and padding around two core keywords.
PluginOptions ==
  << << "p" >>,
     << "l", "d", "a", "p", "-", "g", "i", "t" >>,
     << " ", "O", "A", "u", "t", "h", " " >> >>

\* The advisories files of the scored plugin.
AdvisoryFileOptions ==
  << Files(NoFile, NoFile, NoFile),
     Files(NoFile, File(ThreeCritical), NoFile),
     Files(File(ThreeCritical), File(<< Advisory(D0, 39) >>), NoFile),
     Files(NoFile, NoFile,
           File(<< [ BaseRecord EXCEPT !.severity_summary = Summary(<< "h", "i", "g", "h" >>, 70) ],
                   Advisory(D1 \o << "T", "0", "0", ":", "0", "0" >>, 40) >>)),
     Files(NoFile, File(<< >>), File(ThreeCritical)),
     Files(File(<< Advisory(D2, 0), Advisory(None, -1) >>), NoFile, NoFile) >>

\* The snapshot file of the scored plugin.
SnapshotOptions ==
  << NoSnapshot,
     Snapshot(<< "2", ".", "0" >>, << >>, << >>, [ day |-> TodayStart - 180, aware |-> TRUE ]),
     Snapshot(None,
              << << " ", "d", "1", " " >>, DepName(1), DepName(2), None, << " " >>,
                 DepName(3), DepName(4), DepName(5), DepName(6), DepName(7) >>,
              << "true", "false", "true", "true" >>, NoRelease),
     Snapshot(<< >>, << DepName(2), DepName(1), DepName(2), DepName(2), DepName(2) >>,
              << "false" >>, [ day |-> TodayStart - 400, aware |-> TRUE ]),
     Snapshot(None, << >>, << "true", "true", "true", "true" >>,
              [ day |-> TodayStart - 1, aware |-> FALSE ]),
     Snapshot(None, << DepName(3) >>, << >>, NoRelease) >>

\* The health score file of the scored plugin.
HealthOptions ==
  << NoHealth, Health(1200), Health(-50), Health(875),
     Health(NoHealthValue), Health(NaNHealthValue) >>

\* What the dataset holds about one dependency.
DepProfile(files, snapshot, health) ==
  [ files |-> files, snapshot |-> snapshot, health |-> health ]

\* A dependency with a health score only (3 points), and one with every
\* signal at its cap (33 points).
DepProfiles ==
  << DepProfile(Files(NoFile, NoFile, NoFile), NoSnapshot, Health(250)),
     DepProfile(Files(File(ThreeCritical \o << Advisory(D1, 70), Advisory(D1, -1) >>),
                      NoFile, NoFile),
                Snapshot(None, << >>, << "true", "false", "true" >>, NoRelease),
                Health(0)) >>

\* A dependency with one advisory 365 days old (7 points, 4 from the next
\* day on).
OldAdvisoryProfile ==
  DepProfile(Files(NoFile, File(<< Advisory(D0, 50) >>), NoFile), NoSnapshot,
             Health(NaNHealthValue))

\* The dataset of a scored plugin whose options are given; of the plugins it
\* may depend on, d1 has an old advisory, d2 a health score, d3 every signal
\* and the others no file at all.
OwnDataDir(name, files, snapshot, health) ==
  LET ids == { name, DepName(1), DepName(2), DepName(3) }
      about(id) == IF id = DepName(1) THEN OldAdvisoryProfile
                   ELSE IF id = DepName(2) THEN DepProfiles[1]
                   ELSE DepProfiles[2]
  IN  [ advisories |-> [ id \in ids |-> IF id = name THEN files ELSE about(id).files ],
        plugins |-> [ id \in ids |-> IF id = name THEN snapshot ELSE about(id).snapshot ],
        healthscore |-> [ id \in ids |-> IF id = name THEN health ELSE about(id).health ] ]

OwnInputs ==
  { [ plugin |-> PluginOptions[t], real |-> r,
      data_dir |-> OwnDataDir(Strip(Lower(PluginOptions[t])), AdvisoryFileOptions[f],
                              SnapshotOptions[sn], HealthOptions[h]) ] :
      t \in DOMAIN PluginOptions, r \in BOOLEAN, f \in DOMAIN AdvisoryFileOptions,
      sn \in DOMAIN SnapshotOptions, h \in DOMAIN HealthOptions }

\* The dataset of plugin p declaring dependencies d1..dn, dependency i being
\* described by profile prof[i].
DependencyDataDir(prof) ==
  LET n == Len(prof)
      name == << "p" >>
      ids == { name } \cup { DepName(i) : i \in 1..n }
      about(id) == prof[CHOOSE i \in 1..n : DepName(i) = id]
  IN  [ advisories |-> [ id \in ids |->
                           IF id = name THEN Files(NoFile, NoFile, NoFile) ELSE about(id).files ],
        plugins |-> [ id \in ids |->
                        IF id = name
                        THEN Snapshot(None, [ i \in 1..n |-> DepName(i) ], << >>, NoRelease)
                        ELSE about(id).snapshot ],
        healthscore |-> [ id \in ids |-> IF id = name THEN NoHealth ELSE about(id).health ] ]

DependencyInputs ==
  { [ plugin |-> << "p" >>, real |-> TRUE,
      data_dir |-> DependencyDataDir([ i \in DOMAIN choice |-> DepProfiles[choice[i]] ]) ] :
      choice \in UNION { [ 1..n -> DOMAIN DepProfiles ] : n \in 0..MaxDeps } }

\* 17 days before the first call.
D4 == << "2", "0", "2", "4", "-", "0", "3", "-", "1", "5" >>

T_critical == << "c", "r", "i", "t", "i", "c", "a", "l" >>

\* An advisory record whose one finding states its severity in words and
\* has no CVSS block, as the collector writes it for "S-1 is considered
\* <label>" without a calculator link.
LabelledAdvisory(date, label) ==
  [ BaseRecord EXCEPT
      !.published_date = date,
      !.vulnerabilities = << Finding(S1, label, T_jenkins \o << "_" >> \o T_advisory,
                                     None, NoCvss) >>,
      !.severity_summary = Summary(label, -1) ]

\* Advisories files with recent records: one critical finding, scored or
\* stated in words; two records, of which both or one carry a score.
RecentAdvisoryOptions ==
  << << Advisory(D4, 98) >>,
     << LabelledAdvisory(D4, T_critical) >>,
     << Advisory(D4, 98), Advisory(D4, 98) >>,
     << Advisory(D4, 98), Advisory(D4, -1) >> >>

\* Snapshots declaring security warnings of which exactly one is active.
ActiveWarningOptions ==
  << Snapshot(None, << >>, << "true" >>, NoRelease),
     Snapshot(<< "2", ".", "0" >>, << >>, << "false", "true" >>,
              [ day |-> TodayStart - 30, aware |-> TRUE ]) >>

\* A plugin with recent advisories and one active security warning.
ScenarioInputs ==
  { [ plugin |-> PluginOptions[t], real |-> FALSE,
      data_dir |-> OwnDataDir(Strip(Lower(PluginOptions[t])),
                              Files(NoFile, File(RecentAdvisoryOptions[f]), NoFile),
                              ActiveWarningOptions[sn], HealthOptions[h]) ] :
      t \in DOMAIN PluginOptions, f \in DOMAIN RecentAdvisoryOptions,
      sn \in DOMAIN ActiveWarningOptions, h \in { 1, 4 } }

\* Advisories files of which one holds a line that is not JSON.
MalformedFileOptions ==
  << Files(NoFile, File(<< InvalidJson >>), NoFile),
     Files(NoFile, File(<< Advisory(D4, 98), InvalidJson >>), NoFile),
     Files(File(<< Advisory(D4, 98), InvalidJson >>), File(<< Advisory(D4, 98) >>), NoFile),
     Files(NoFile, NoFile, NoFile) >>

\* Snapshot files of dependency d1 and of the plugin: valid or not JSON.
MalformedSnapshotOptions ==
  << NoSnapshot, [ exists |-> TRUE, plugin_api |-> InvalidJson ] >>

\* The dataset of plugin p, which may declare the dependency d1, where the
\* advisories and snapshot files of both may be malformed.
MalformedDataDir(files, snapshot, dep_files, dep_snapshot) ==
  [ advisories |-> << "p" >> :> files @@ DepName(1) :> dep_files,
    plugins |-> << "p" >> :> snapshot @@ DepName(1) :> dep_snapshot,
    healthscore |-> << "p" >> :> Health(875) @@ DepName(1) :> NoHealth ]

MalformedInputs ==
  { [ plugin |-> << "p" >>, real |-> r,
      data_dir |-> MalformedDataDir(MalformedFileOptions[f], sn, MalformedFileOptions[df],
                                    MalformedSnapshotOptions[dsn]) ] :
      r \in BOOLEAN, f \in DOMAIN MalformedFileOptions,
      sn \in { NoSnapshot, MalformedSnapshotOptions[2],
               Snapshot(None, << DepName(1) >>, << >>, NoRelease) },
      df \in DOMAIN MalformedFileOptions, dsn \in DOMAIN MalformedSnapshotOptions }

ScoreInputs == OwnInputs \cup DependencyInputs \cup ScenarioInputs \cup MalformedInputs

\* ------------------------------------------------------------------------
\* Inputs of the URL canonicaliser
\* ------------------------------------------------------------------------

\* Largest number of pieces a drawn URL text is made of.
MaxUrlParts == 3

\* Largest number of successive applications of one canonicaliser.
MaxApplications == 2

\* The pieces URL texts are drawn from: separators, brackets, white space,
\* a query, a fragment, a scheme, the bare host and a path.
UrlPieces ==
  << << "/", "/" >>, << "[" >>, << "\n" >>, << " " >>, << "?", "q" >>, << "#", "f" >>,
     T_http \o << ":" >>, T_jenkins_io, << "/", "a" >> >>

\* Hosts that contain jenkins.io without being it, beside the two exact ones.
SpoofHosts ==
  { << "e", "v", "i", "l", "-" >> \o T_jenkins_io,
    T_jenkins_io \o << ".", "e", "x", "a", "m", "p", "l", "e", ".", "c", "o", "m" >>,
    T_jenkins_io \o << ":", "4", "4", "3" >>,
    << "J", "e", "n", "k", "i", "n", "s", ".", "i", "o" >>,
    << "u", "@" >> \o T_jenkins_io,
    T_jenkins_io, T_www_jenkins_io }

\* URL texts with each of SpoofHosts as the host.
SpoofInputs ==
  { lead \o << "/", "/" >> \o h \o rest :
      lead \in { << >>, T_http \o << ":" >>, T_https \o << ":" >> },
      h \in SpoofHosts,
      rest \in { << >>, << "/", "a" >>, << "?", "q" >> } }

RECURSIVE Concat(_)
Concat(parts) == IF parts = << >> THEN << >> ELSE parts[1] \o Concat(Tail(parts))

UrlInputs ==
  { Concat([ i \in DOMAIN c |-> UrlPieces[c[i]] ]) :
      c \in UNION { [ 1..n -> DOMAIN UrlPieces ] : n \in 0..MaxUrlParts } }
    \cup SpoofInputs

\* ------------------------------------------------------------------------
\* Inputs of the CVSS evaluator
\* ------------------------------------------------------------------------

\* Largest number of metrics missing or mis-valued in a drawn vector.
MaxDefects == 1

MetricKeys ==
  << << "A", "V" >>, << "A", "C" >>, << "P", "R" >>, << "U", "I" >>,
     << "S" >>, << "C" >>, << "I" >>, << "A" >> >>

\* The metric values the CVSS v3 standard allows, in MetricKeys order.
AllowedValues ==
  << { << "N" >>, << "A" >>, << "L" >>, << "P" >> }, { << "L" >>, << "H" >> },
     { << "N" >>, << "L" >>, << "H" >> }, { << "N" >>, << "R" >> },
     { << "U" >>, << "C" >> }, { << "N" >>, << "L" >>, << "H" >> },
     { << "N" >>, << "L" >>, << "H" >> }, { << "N" >>, << "L" >>, << "H" >> } >>

\* The vector text of a prefix and eight metric values (Absent: left out).
VectorText(prefix, values) ==
  prefix \o Concat([ j \in 1..8 |->
                      IF values[j] = Absent THEN << >>
                      ELSE << "/" >> \o MetricKeys[j] \o << ":" >> \o values[j] ])

ValidValues ==
  { << av, ac, pr, ui, sc, c, i, a >> :
      av \in AllowedValues[1], ac \in AllowedValues[2], pr \in AllowedValues[3],
      ui \in AllowedValues[4], sc \in AllowedValues[5], c \in AllowedValues[6],
      i \in AllowedValues[7], a \in AllowedValues[8] }

\* AV:N/AC:H/PR:L/UI:R/S:C/C:L/I:L/A:N and AV:N/AC:L/PR:N/UI:N/S:U/C:H/I:H/A:H
BaseValues ==
  { << << "N" >>, << "H" >>, << "L" >>, << "R" >>, << "C" >>, << "L" >>, << "L" >>, << "N" >> >>,
    << << "N" >>, << "L" >>, << "N" >>, << "N" >>, << "U" >>, << "H" >>, << "H" >>, << "H" >> >> }

\* The base values with up to n metrics left out or given the value X.
RECURSIVE Defected(_)
Defected(n) ==
  LET Step(prev) ==
        prev \cup { [ v EXCEPT ![k] = d ] :
                      v \in prev, k \in 1..8, d \in { Absent, << "X" >> } }
  IN  IF n = 0 THEN BaseValues ELSE Step(Defected(n - 1))

T_cvss == << "C", "V", "S", "S", ":" >>

\* Every well-formed v3.1 vector, and the base vectors with defects behind
\* the prefixes CVSS:3.1, CVSS:3.0 and CVSS:2.0.
VectorInputs ==
  { VectorText(T_cvss \o << "3", ".", "1" >>, v) : v \in ValidValues }
    \cup { VectorText(T_cvss \o ver, v) :
             ver \in { << "3", ".", "1" >>, << "3", ".", "0" >>, << "2", ".", "0" >> },
             v \in Defected(MaxDefects) }

\* Bare numeric score values (tenths) read from stored records.
BareScores == { -10, -5, 0, 1, 39, 40, 69, 70, 89, 90, 100 }

\* ------------------------------------------------------------------------
\* Inputs of the registry collector
\* ------------------------------------------------------------------------

\* Largest number of requests the collector sends to the upstream.
MaxRequests == 3

PluginObject(name) ==
  [ dict |-> TRUE, name |-> name, pluginId |-> None, id |-> None, artifactId |-> None ]

\* A plugin object without a usable id: a blank name and no other key.
NoIdObject == PluginObject(<< " " >>)

\* A plugin object named by its artifactId only.
ArtifactObject(name) ==
  [ dict |-> TRUE, name |-> None, pluginId |-> None, id |-> << >>, artifactId |-> name ]

\* An entry of the plugins list that is no object.
NotAnObject ==
  [ dict |-> FALSE, name |-> None, pluginId |-> None, id |-> None, artifactId |-> None ]

Page(plugins, total) ==
  [ shape |-> "dict", plugins |-> plugins, total |-> total, next |-> None ]

\* A link an upstream page gives as its next page.
NextLink == T_https \o << ":", "/", "/", "x", "/", "1" >>

\* The responses of the upstream: pages of the shape {plugins, total}, of
\* which one is empty and one holds entries without an id; pages with a next
\* link, one of them with an http link, which the collector ignores; a page
\* with a total that is no number; bare lists; a JSON value of another shape.
RegistryPages ==
  { Page(<< PluginObject(<< "a" >>), PluginObject(<< "b" >>) >>, << "3" >>),
    Page(<< ArtifactObject(<< "c" >>) >>, << "3" >>),
    Page(<< >>, << "3" >>),
    Page(<< PluginObject(<< "a", " " >>), NoIdObject, NotAnObject >>, << "3" >>),
    [ Page(<< PluginObject(<< "a" >>) >>, << "3" >>) EXCEPT !.next = NextLink ],
    [ Page(<< PluginObject(<< "b" >>) >>, << "1" >>) EXCEPT
        !.next = T_http \o << ":", "/", "/", "x" >> ],
    Page(<< PluginObject(<< "b" >>), PluginObject(<< "c" >>) >>, << "3", ".", "0" >>),
    [ shape |-> "list", plugins |-> << PluginObject(<< "a" >>) >>,
      total |-> None, next |-> None ],
    [ shape |-> "other", plugins |-> << >>, total |-> None, next |-> None ] }

\* The page_size arguments: 0 is refused.
PageSizes == { 0, 1, 2 }

\* The max_plugins arguments: << >> stands for None.
MaxPluginsOptions == { << >>, << 0 >>, << 1 >>, << 2 >>, << 3 >> }

\* ------------------------------------------------------------------------
\* Inputs of the dataset writers
\* ------------------------------------------------------------------------

\* Largest number of reads the scorer makes of the file while it is written.
MaxReads == 2

\* A file of the dataset directory: whether it exists, and its text.
OnDisk(text) == [ exists |-> TRUE, text |-> text ]

NotOnDisk == [ exists |-> FALSE, text |-> << >> ]

\* json.dumps of a record numbered n, and the newline the writer adds.
JsonLine(n) == << "{", n, "}", "\n" >>

\* json.dumps(..., indent=2) of an object with one key.
JsonDocument(n) == << "{", "\n", " ", " ", n, "\n", "}" >>

\* The text each writer is to write: the advisories writer one line per
\* record (none for no record), the snapshot writer a document and a
\* newline, the health-score writer a document.
Payloads ==
  [ advisories |-> { << >>, JsonLine("1"), JsonLine("1") \o JsonLine("2") },
    snapshot |-> { JsonDocument("1") \o << "\n" >> },
    healthscore |-> { JsonDocument("1") } ]

\* The file before the writer runs: absent, empty, or an earlier run's text.
EarlierFiles ==
  [ advisories |-> { NotOnDisk, OnDisk(<< >>), OnDisk(JsonLine("0")) },
    snapshot |-> { NotOnDisk, OnDisk(<< >>), OnDisk(JsonDocument("0") \o << "\n" >>) },
    healthscore |-> { NotOnDisk, OnDisk(<< >>), OnDisk(JsonDocument("0")) } ]

\* ------------------------------------------------------------------------
\* State
\* ------------------------------------------------------------------------

VARIABLES
  records,   \* the records handed to merge_advisory_records
  idx,       \* position of the for loop in records (next to process)
  merged,    \* the merged dict, in insertion order
  counts,    \* the counts dict, parallel to merged
  out,       \* the returned list (written to the advisories file)
  events,    \* the events file written by build_advisories_events
  mpc,       \* "loop", "done" (returned), "raised", or "idle" (no merge)
  phase,     \* "collect": merge of raw records; "build": build_advisories_events
  data_dir,  \* the dataset directory read by the scorer
  plugin,    \* the plugin argument of the calls
  real,      \* the real flag of the calls
  today,     \* the machine's clock (UTC day ordinal)
  results,   \* the calls of score_plugin_baseline so far, in order: the day
             \* datetime.now read, the running total before the default
             \* floor, and the ScoreResult returned
  url,       \* the text handed to the URL canonicaliser
  canon,     \* the results of _canonicalize_jenkins_url applied to url, then
             \* to its own result, in order
  norm,      \* the same for _normalize_advisory_url
  fuzz,      \* the fuzzer's TestOneInput on url: "idle", "passed" or "crashed"
  vector,    \* the CVSS vector handed to _cvss3_base_score, None when the
             \* score at hand is a bare number
  base_score, \* << >> until known, then the one score (tenths, -1 for None)
  labels,    \* the labels the collector's and the scorer's banding give
             \* base_score, once derived
  page_size, \* the page_size argument of collect_plugins_registry_real
  max_plugins, \* its max_plugins argument, << >> for None
  offset,    \* the collector's offset
  next_url,  \* the collector's next_url, None or a link
  registry,  \* the registry records collected so far
  raw_pages, \* the payloads fetched so far, in order
  requests,  \* the requests sent so far, in order: the link followed, or
             \* the offset asked for
  rpc,       \* "call", "loop", "returned", "raised", or "idle" (no call)
  writer,    \* the writer at work: "advisories", "snapshot" or "healthscore"
  overwrite, \* the writer's overwrite flag
  earlier,   \* the file as it was before the writer ran
  payload,   \* the text the writer is to write
  disk,      \* the file as it is on disk
  wpc,       \* "start", "open" (opened for writing), "closed", "skipped",
             \* or "idle" (no writer)
  reads      \* what the scorer's reads of the file returned, in order

mergeVars == << records, idx, merged, counts, out, events, mpc, phase >>

scoreVars == << data_dir, plugin, real, today, results >>

urlVars == << url, canon, norm, fuzz >>

cvssVars == << vector, base_score, labels >>

registryVars ==
  << page_size, max_plugins, offset, next_url, registry, raw_pages, requests, rpc >>

storeVars == << writer, overwrite, earlier, payload, disk, wpc, reads >>

vars == << mergeVars, scoreVars, urlVars, cvssVars, registryVars, storeVars >>

IdleMerge ==
  /\ records = << >>
  /\ idx = 1
  /\ merged = << >>
  /\ counts = << >>
  /\ out = << >>
  /\ events = << >>
  /\ mpc = "idle"
  /\ phase = "collect"

IdleUrl ==
  /\ url = << >>
  /\ canon = << >>
  /\ norm = << >>
  /\ fuzz = "idle"

IdleCvss ==
  /\ vector = None
  /\ base_score = << >>
  /\ labels = << >>

IdleRegistry ==
  /\ page_size = 1
  /\ max_plugins = << >>
  /\ offset = 0
  /\ next_url = None
  /\ registry = << >>
  /\ raw_pages = << >>
  /\ requests = << >>
  /\ rpc = "idle"

IdleStore ==
  /\ writer = "advisories"
  /\ overwrite = FALSE
  /\ earlier = NotOnDisk
  /\ payload = << >>
  /\ disk = NotOnDisk
  /\ wpc = "idle"
  /\ reads = << >>

EmptyDataDir ==
  [ advisories |-> << >>, plugins |-> << >>, healthscore |-> << >> ]

InitMerge ==
  /\ IdleRegistry
  /\ IdleStore
  /\ records \in RecordInputs
  /\ idx = 1
  /\ merged = << >>
  /\ counts = << >>
  /\ out = << >>
  /\ events = << >>
  /\ mpc = "loop"
  /\ phase = "collect"
  /\ data_dir = EmptyDataDir
  /\ plugin = << >>
  /\ real = FALSE
  /\ today = TodayStart
  /\ results = << >>
  /\ IdleUrl
  /\ IdleCvss

\* One iteration of the for loop over records.
MergeLoop ==
  /\ mpc = "loop"
  /\ idx <= Len(records)
  /\ LET st == MergeLoopBody([ merged |-> merged, counts |-> counts,
                               raised |-> FALSE ], records[idx])
     IN  /\ merged' = st.merged
         /\ counts' = st.counts
         /\ mpc' = IF st.raised THEN "raised" ELSE "loop"
         /\ idx' = IF st.raised THEN idx ELSE idx + 1
  /\ UNCHANGED << records, out, events, phase, scoreVars, urlVars, cvssVars,
                  registryVars, storeVars >>

\* The loop is exhausted: stamp the counts and return; build_advisories_events
\* then sorts the list and writes the events file.
MergeReturn ==
  /\ mpc = "loop"
  /\ idx > Len(records)
  /\ out' = MergeOutput([ merged |-> merged, counts |-> counts, raised |-> FALSE ])
  /\ events' = IF phase = "build" THEN SortEvents(out') ELSE events
  /\ mpc' = "done"
  /\ UNCHANGED << records, idx, merged, counts, phase, scoreVars, urlVars, cvssVars,
                  registryVars, storeVars >>

\* build_advisories_events: read the advisories file the collector wrote, keep
\* the jenkins advisories and merge them.
BuildAdvisoriesEvents ==
  /\ mpc = "done"
  /\ phase = "collect"
  /\ records' = SelectSeq(out, IsJenkinsAdvisory)
  /\ idx' = 1
  /\ merged' = << >>
  /\ counts' = << >>
  /\ mpc' = "loop"
  /\ phase' = "build"
  /\ UNCHANGED << out, events, scoreVars, urlVars, cvssVars,
                  registryVars, storeVars >>

NextMerge == MergeLoop \/ MergeReturn \/ BuildAdvisoriesEvents

SpecMerge == InitMerge /\ [][NextMerge]_vars

InitScore ==
  /\ IdleRegistry
  /\ IdleStore
  /\ IdleMerge
  /\ IdleUrl
  /\ IdleCvss
  /\ \E inp \in ScoreInputs :
       /\ plugin = inp.plugin
       /\ real = inp.real
       /\ data_dir = inp.data_dir
  /\ today = TodayStart
  /\ results = << >>

\* One call of score_plugin_baseline; today is what datetime.now reads.
Score ==
  /\ Len(results) < MaxCalls
  /\ \E s \in { ScoreSignals(plugin, data_dir, real, today) } :
       results' = Append(results, [ today |-> today, total |-> s.total,
                                    result |-> ScoreResult(plugin, s) ])
  /\ UNCHANGED << mergeVars, data_dir, plugin, real, today, urlVars, cvssVars,
                  registryVars, storeVars >>

\* Midnight UTC passes.
Tick ==
  /\ today < TodayStart + MaxTicks
  /\ today' = today + 1
  /\ UNCHANGED << mergeVars, data_dir, plugin, real, results, urlVars, cvssVars,
                  registryVars, storeVars >>

NextScore == Score \/ Tick

SpecScore == InitScore /\ [][NextScore]_vars

IdleScore ==
  /\ data_dir = EmptyDataDir
  /\ plugin = << >>
  /\ real = FALSE
  /\ today = TodayStart
  /\ results = << >>

InitUrl ==
  /\ IdleRegistry
  /\ IdleStore
  /\ IdleMerge
  /\ IdleScore
  /\ IdleCvss
  /\ url \in UrlInputs
  /\ canon = << >>
  /\ norm = << >>
  /\ fuzz = "idle"

\* _canonicalize_jenkins_url applied to url, or to the result it gave last.
Canonicalize ==
  /\ Len(canon) < MaxApplications
  /\ canon' = Append(canon, _canonicalize_jenkins_url(
                              IF canon = << >> THEN url ELSE canon[Len(canon)]))
  /\ UNCHANGED << mergeVars, scoreVars, url, norm, fuzz, cvssVars,
                  registryVars, storeVars >>

\* _normalize_advisory_url applied to url, or to the result it gave last.
Normalize ==
  /\ Len(norm) < MaxApplications
  /\ norm' = Append(norm, _normalize_advisory_url(
                            IF norm = << >> THEN url ELSE norm[Len(norm)]))
  /\ UNCHANGED << mergeVars, scoreVars, url, canon, fuzz, cvssVars,
                  registryVars, storeVars >>

\* The fuzzer's TestOneInput: canonicalise, and parse a non-empty result.
TestOneInput ==
  /\ fuzz = "idle"
  /\ \E o \in { _canonicalize_jenkins_url(url) } :
       fuzz' = IF Truthy(o) /\ ~urlparse(o).ok THEN "crashed" ELSE "passed"
  /\ UNCHANGED << mergeVars, scoreVars, url, canon, norm, cvssVars,
                  registryVars, storeVars >>

NextUrl == Canonicalize \/ Normalize \/ TestOneInput

SpecUrl == InitUrl /\ [][NextUrl]_vars

InitCvss ==
  /\ IdleRegistry
  /\ IdleStore
  /\ IdleMerge
  /\ IdleScore
  /\ IdleUrl
  /\ labels = << >>
  /\ \/ vector \in VectorInputs /\ base_score = << >>
     \/ vector = None /\ base_score \in { << b >> : b \in BareScores }

\* _extract_cvss_by_security_id computes the base score of the vector.
BaseScore ==
  /\ vector # None
  /\ base_score = << >>
  /\ base_score' = << _cvss3_base_score(vector) >>
  /\ UNCHANGED << mergeVars, scoreVars, urlVars, vector, labels,
                  registryVars, storeVars >>

\* The collector labels a finding, and the scorer an advisory, from the score.
Band ==
  /\ base_score # << >>
  /\ labels = << >>
  /\ labels' = << [ collector |-> _cvss_base_score_to_severity_label(base_score[1]),
                    scorer |-> _cvss_base_score_to_label(base_score[1]) ] >>
  /\ UNCHANGED << mergeVars, scoreVars, urlVars, vector, base_score,
                  registryVars, storeVars >>

NextCvss == BaseScore \/ Band

SpecCvss == InitCvss /\ [][NextCvss]_vars

InitRegistry ==
  /\ IdleMerge
  /\ IdleScore
  /\ IdleUrl
  /\ IdleCvss
  /\ IdleStore
  /\ page_size \in PageSizes
  /\ max_plugins \in MaxPluginsOptions
  /\ offset = 0
  /\ next_url = None
  /\ registry = << >>
  /\ raw_pages = << >>
  /\ requests = << >>
  /\ rpc = "call"

\* collect_plugins_registry_real up to its loop: page_size is checked.
CollectCall ==
  /\ rpc = "call"
  /\ rpc' = IF page_size <= 0 \/ page_size > 5000 THEN "raised" ELSE "loop"
  /\ UNCHANGED << mergeVars, scoreVars, urlVars, cvssVars, storeVars,
                  page_size, max_plugins, offset, next_url, registry,
                  raw_pages, requests >>

\* One iteration of the while loop: the request, the upstream's response,
\* the records of its page, and the termination conditions.
CollectLoop ==
  /\ rpc = "loop"
  /\ Len(raw_pages) < MaxRequests
  /\ \E fetched \in RegistryPages :
       \E r \in { LoopIteration(page_size, max_plugins, offset, registry, fetched) } :
         /\ requests' = Append(requests, [ link |-> next_url, offset |-> offset ])
         /\ raw_pages' = Append(raw_pages, fetched)
         /\ rpc' = r.rpc
         /\ offset' = r.offset
         /\ next_url' = IF r.rpc = "raised" THEN next_url ELSE r.next_url
         /\ registry' = r.registry
  /\ UNCHANGED << mergeVars, scoreVars, urlVars, cvssVars, storeVars,
                  page_size, max_plugins >>

NextRegistry == CollectCall \/ CollectLoop

SpecRegistry == InitRegistry /\ [][NextRegistry]_vars

InitStore ==
  /\ IdleMerge
  /\ IdleScore
  /\ IdleUrl
  /\ IdleCvss
  /\ IdleRegistry
  /\ writer \in { "advisories", "snapshot", "healthscore" }
  /\ overwrite \in BOOLEAN
  /\ earlier \in EarlierFiles[writer]
  /\ payload \in Payloads[writer]
  /\ disk = earlier
  /\ wpc = "start"
  /\ reads = << >>

\* _nonempty(path)
_nonempty(file) == file.exists /\ Len(file.text) > 0

\* The writer's check of the file at hand, then open("w"), which creates
\* the file or truncates it. The snapshot writer has no overwrite flag.
WriterOpen ==
  /\ wpc = "start"
  /\ IF _nonempty(disk) /\ ~(overwrite /\ writer # "snapshot")
     THEN wpc' = "skipped" /\ disk' = disk
     ELSE wpc' = "open" /\ disk' = OnDisk(<< >>)
  /\ UNCHANGED << mergeVars, scoreVars, urlVars, cvssVars, registryVars,
                  writer, overwrite, earlier, payload, reads >>

\* The buffer of the open file is flushed: more of the text is on disk.
WriterFlush ==
  /\ wpc = "open"
  /\ \E n \in (Len(disk.text) + 1)..Len(payload) : disk' = OnDisk(Take(payload, n))
  /\ UNCHANGED << mergeVars, scoreVars, urlVars, cvssVars, registryVars,
                  writer, overwrite, earlier, payload, wpc, reads >>

\* The file is closed: all of the text is on disk.
WriterClose ==
  /\ wpc = "open"
  /\ disk' = OnDisk(payload)
  /\ wpc' = "closed"
  /\ UNCHANGED << mergeVars, scoreVars, urlVars, cvssVars, registryVars,
                  writer, overwrite, earlier, payload, reads >>

\* The scorer's load of the file: path.exists(), then path.read_text().
ScorerRead ==
  /\ wpc # "idle"
  /\ Len(reads) < MaxReads
  /\ reads' = Append(reads, disk)
  /\ UNCHANGED << mergeVars, scoreVars, urlVars, cvssVars, registryVars,
                  writer, overwrite, earlier, payload, disk, wpc >>

NextStore == WriterOpen \/ WriterFlush \/ WriterClose \/ ScorerRead

SpecStore == InitStore /\ [][NextStore]_vars

\* ------------------------------------------------------------------------
\* Properties of merge_advisory_records
\* ------------------------------------------------------------------------

\* The input records after the per-record normalisation.
NormalizedRecords == [ j \in 1..Len(records) |-> NormalizeRecord(records[j]) ]

\* The input positions whose dedupe key is that of output record o.
Group(o) ==
  { j \in 1..Len(records) : key_for(NormalizedRecords[j]) = key_for(o) }

SharesOneKey ==
  \A i, j \in 1..Len(records) :
    key_for(NormalizedRecords[i]) = key_for(NormalizedRecords[j])

StrictlyAscending(ids) ==
  \A a, b \in 1..Len(ids) : a < b => LexLess(ids[a], ids[b])

\* A missing key, null and the empty text all carry no value.
NoValue(x) == IF Truthy(x) THEN x ELSE << >>

\* A record with every valueless text field read as the empty text, so that
\* two records are compared by the information they carry.
Content(r) ==
  [ r EXCEPT
      !.source = NoValue(@), !.type = NoValue(@), !.plugin_id = NoValue(@),
      !.advisory_id = NoValue(@), !.published_date = NoValue(@),
      !.title = NoValue(@), !.url = NoValue(@),
      !.vulnerabilities =
         [ a \in 1..Len(r.vulnerabilities) |->
             [ r.vulnerabilities[a] EXCEPT
                 !.severity_label = NoValue(@),
                 !.severity_source = NoValue(@),
                 !.url_fragment = NoValue(@),
                 !.cvss = [ @ EXCEPT !.version = NoValue(@),
                                     !.vector = NoValue(@),
                                     !.url = NoValue(@) ] ] ] ]

\* C3: for raw records that share one dedupe key, the merge returns the same
\* record (the same value in every field) for every permutation of the input
\* order.
C3_OrderIndependent ==
  (mpc = "done" /\ phase = "collect" /\ SharesOneKey) =>
    \A p \in Permutations(1..Len(records)) :
      LET m == merge_advisory_records([ i \in 1..Len(records) |-> records[p[i]] ])
      IN  /\ ~m.raised
          /\ Len(m.out) = Len(out)
          /\ \A i \in 1..Len(out) : Content(m.out[i]) = Content(out[i])

\* C6: no two returned records, and no two records of the events file, have
\* the same dedupe key.
C6_UniqueKeys ==
  mpc = "done" =>
    /\ \A i, j \in 1..Len(out) : i # j => key_for(out[i]) # key_for(out[j])
    /\ \A i, j \in 1..Len(events) :
         i # j => key_for(events[i]) # key_for(events[j])

C6_Witness ==
  /\ mpc = "done"
  /\ phase = "collect"
  /\ Len(out) >= 2
  /\ Len(records) > Len(out)

\* C7: for a group of two or more records the merged security_warning_ids is
\* the sorted duplicate-free union of the members' ids, the merged
\* active_security_warning is true iff some member's flag is true, and the
\* merged published_date is the smallest non-empty date of the members.
C7_UnionAnyEarliest ==
  mpc = "done" =>
    \A i \in 1..Len(out) :
      LET o == out[i]
          g == Group(o)
          dates == { NormalizedRecords[j].published_date : j \in g } \ { None, Absent, << >> }
      IN  Cardinality(g) >= 2 =>
            /\ Range(o.security_warning_ids) =
                 UNION { Range(records[j].security_warning_ids) : j \in g }
            /\ StrictlyAscending(o.security_warning_ids)
            /\ o.active_security_warning \in { "true", "false" }
            /\ (o.active_security_warning = "true") <=>
                 (\E j \in g : records[j].active_security_warning = "true")
            /\ dates # {} =>
                 /\ o.published_date \in dates
                 /\ \A d \in dates : ~LexLess(d, o.published_date)

C7_Witness ==
  /\ mpc = "done"
  /\ \E i \in 1..Len(out) :
       LET o == out[i]
           g == Group(o)
       IN  /\ Cardinality(g) >= 2
           /\ o.security_warning_ids = << S1, S2 >>
           /\ o.active_security_warning = "true"
           /\ \E j \in g : records[j].active_security_warning = "false"
           /\ o.published_date = D1
           /\ \E j \in g : NormalizedRecords[j].published_date = D3

\* All findings for id sid of the members of group g, in input order.
RECURSIVE FindingsFor(_, _, _)
FindingsFor(sid, g, j) ==
  IF j > Len(records) THEN << >>
  ELSE (IF j \in g
        THEN SelectSeq(NormalizedRecords[j].vulnerabilities,
                       LAMBDA v : v.security_warning_id = sid)
        ELSE << >>) \o FindingsFor(sid, g, j + 1)

\* A value of the findings fs picked by get is kept "first non-empty": the
\* merged value m is the first value that is not in the set empty.
FirstNonEmptyKept(fs, get(_), empty, m) ==
  (\E a \in 1..Len(fs) : get(fs[a]) \notin empty) =>
    \E a \in 1..Len(fs) :
      /\ get(fs[a]) \notin empty
      /\ \A b \in 1..(a - 1) : get(fs[b]) \in empty
      /\ m = get(fs[a])

\* C8: the merged vulnerabilities hold exactly one finding per
\* security_warning_id of any member, and for an id present in several
\* members (each listing it once) every field of the merged finding
\* (severity_label, severity_source, url_fragment, each cvss sub-field) is the
\* first non-empty value that a member's finding for that id has.
C8_FindingFieldsKept ==
  mpc = "done" =>
    \A i \in 1..Len(out) :
      LET o == out[i]
          g == Group(o)
          sids == UNION { VulnIds(NormalizedRecords[j].vulnerabilities) : j \in g }
          emptyText == { None, << >> }
      IN  Cardinality(g) >= 2 =>
            \A sid \in sids :
              /\ Cardinality({ a \in 1..Len(o.vulnerabilities) :
                                 o.vulnerabilities[a].security_warning_id = sid }) = 1
              /\ LET f == VulnFor(o.vulnerabilities, sid)
                     fs == FindingsFor(sid, g, 1)
                 IN  (Len(fs) >= 2 /\ \A j \in g : Len(FindingsFor(sid, { j }, 1)) <= 1) =>
                     /\ FirstNonEmptyKept(fs, LAMBDA v : v.severity_label,
                                          emptyText, f.severity_label)
                     /\ FirstNonEmptyKept(fs, LAMBDA v : v.severity_source,
                                          emptyText, f.severity_source)
                     /\ FirstNonEmptyKept(fs, LAMBDA v : v.url_fragment,
                                          emptyText, f.url_fragment)
                     /\ FirstNonEmptyKept(fs, LAMBDA v : v.cvss.version,
                                          emptyText, f.cvss.version)
                     /\ FirstNonEmptyKept(fs, LAMBDA v : v.cvss.vector,
                                          emptyText, f.cvss.vector)
                     /\ FirstNonEmptyKept(fs, LAMBDA v : v.cvss.base_score,
                                          { -1 }, f.cvss.base_score)
                     /\ FirstNonEmptyKept(fs, LAMBDA v : v.cvss.url,
                                          emptyText, f.cvss.url)

\* C9: once the running base record's url has host www.jenkins.io it keeps
\* that host, and if any member of a group has a url with host www.jenkins.io
\* then so has the merged record.
C9_CanonicalHostKept ==
  /\ [][ \A i \in 1..Len(merged) :
           (i <= Len(merged') /\ host(merged[i].obj.url) = T_www_jenkins_io)
             => host(merged'[i].obj.url) = T_www_jenkins_io ]_vars
  /\ [](mpc = "done" =>
          \A i \in 1..Len(out) :
            (\E j \in Group(out[i]) :
                \/ host(records[j].url) = T_www_jenkins_io
                \/ host(NormalizedRecords[j].url) = T_www_jenkins_io)
              => host(out[i].url) = T_www_jenkins_io)

C9_Witness ==
  /\ mpc = "done"
  /\ \E i \in 1..Len(out) :
       LET g == Group(out[i])
       IN  /\ Cardinality(g) >= 2
           /\ host(out[i].url) = T_www_jenkins_io
           /\ \E j \in g : /\ Truthy(NormalizedRecords[j].url)
                           /\ host(NormalizedRecords[j].url) # T_www_jenkins_io
                           /\ \E l \in g : l < j /\ host(NormalizedRecords[l].url) = T_www_jenkins_io

RECURSIVE SumMergedFrom(_)
SumMergedFrom(recs) ==
  IF recs = << >> THEN 0
  ELSE (IF recs[1].merged_from_count = 0 THEN 1 ELSE recs[1].merged_from_count)
         + SumMergedFrom(Tail(recs))

\* C10 (original): a returned record carries _merged_from_count = n exactly
\* when n > 1 input records had its key and none when it came from a single
\* input record; the counts (1 when absent) sum to the number of inputs.
C10_Original ==
  mpc = "done" =>
    /\ \A i \in 1..Len(out) :
         LET n == Cardinality(Group(out[i]))
         IN  /\ n > 1 => out[i].merged_from_count = n
             /\ n = 1 => out[i].merged_from_count = 0
    /\ SumMergedFrom(out) = Len(records)

\* C10 (amended): a returned record carries _merged_from_count = n when n > 1
\* input records had its key; a record that came from a single input record
\* carries exactly what that input record carried; when no input record
\* carries the field the counts (1 when absent) sum to the number of inputs.
C10_Amended ==
  mpc = "done" =>
    /\ \A i \in 1..Len(out) :
         LET g == Group(out[i])
             n == Cardinality(g)
         IN  /\ n > 1 => out[i].merged_from_count = n
             /\ n = 1 => \A j \in g :
                           out[i].merged_from_count = records[j].merged_from_count
    /\ (\A j \in 1..Len(records) : records[j].merged_from_count = 0)
         => SumMergedFrom(out) = Len(records)

C10_Witness ==
  /\ mpc = "done"
  /\ phase = "build"
  /\ \E i \in 1..Len(out) :
       /\ Cardinality(Group(out[i])) = 1
       /\ out[i].merged_from_count = 3


\* C20: merge_advisory_records does not raise when a record carries a url
\* that urlparse refuses, be the record the first of its group or one merged
\* into an existing base record, and whatever its source.
C20_BadUrlTolerated ==
  (\E i \in 1..Len(records) : Truthy(records[i].url) /\ HostRaises(records[i].url))
    => mpc # "raised"

\* C26: in every returned record, of a group of one record as well as of a
\* merged group, the vulnerabilities are in ascending security_warning_id
\* order and no security_warning_id occurs twice.
C26_FindingsOrdered ==
  mpc = "done" =>
    \A i \in 1..Len(out) :
      LET Ids(vulns) == [ a \in 1..Len(vulns) |-> vulns[a].security_warning_id ]
      IN  StrictlyAscending(Ids(out[i].vulnerabilities))

\* ------------------------------------------------------------------------
\* Properties of score_plugin_baseline
\* ------------------------------------------------------------------------

\* The calls that returned a ScoreResult.
Returned == { i \in 1..Len(results) : ~results[i].result.raised }

\* The running total of call i before the default floor and the final clamp.
RunningTotal(i) == results[i].total

DefaultReason == Reason("No heuristics matched (baseline default).", << >>, << >>)

\* C1: whatever the plugin id, the files present in the dataset directory
\* and the real flag, every score returned by score_plugin_baseline is an
\* integer between 0 and 100.
C1_ScoreInRange ==
  \A i \in Returned : results[i].result.score \in 0..100

\* A call whose signals add up to more than 100 has returned.
C1_Witness ==
  \E i \in Returned : RunningTotal(i) > 100 /\ results[i].result.score = 100

\* Nothing is known about the plugin: no keyword in its name, no advisories
\* file, no snapshot and no health score record.
NothingKnown ==
  LET name == Strip(Lower(plugin))
  IN  /\ \A k \in Range(core_keywords) \cup Range(scm_keywords) : ~IsSubstring(k, name)
      /\ ~AdvisoriesFileExists(name, data_dir)
      /\ ~_load_plugin_snapshot(name, data_dir).exists
      /\ ~_load_healthscore_record(name, data_dir).exists

\* C2: when the running total after all signals is exactly 0 the returned
\* score is 5 and the last reason is the default one; no returned score is
\* 0; and a plugin nothing is known about scores exactly 5 without raising.
C2_DefaultFloor ==
  /\ \A i \in Returned :
       /\ results[i].result.score # 0
       /\ RunningTotal(i) = 0 =>
            /\ results[i].result.score = 5
            /\ results[i].result.reasons[Len(results[i].result.reasons)] = DefaultReason
  /\ NothingKnown =>
       \A i \in 1..Len(results) : i \in Returned /\ results[i].result.score = 5

\* A call whose total is 0 although a snapshot was read (the release
\* discount took the total back to 0) has returned.
C2_Witness ==
  \E i \in Returned :
    /\ RunningTotal(i) = 0
    /\ results[i].result.features.has_plugin_snapshot
    /\ results[i].result.score = 5

\* C4: two calls with the same plugin id, the same contents of the data
\* directory and the same real flag return identical ScoreResults.
C4_Deterministic ==
  \A i, j \in 1..Len(results) : results[i].result = results[j].result

RECURSIVE SumOver(_, _)
SumOver(f, S) ==
  IF S = {} THEN 0
  ELSE LET x == CHOOSE y \in S : TRUE IN f[x] + SumOver(f, S \ {x})

\* The dataset without any file of the plugins in ids.
WithoutFilesOf(dd, ids) ==
  [ advisories |-> [ id \in DOMAIN dd.advisories \ ids |-> dd.advisories[id] ],
    plugins |-> [ id \in DOMAIN dd.plugins \ ids |-> dd.plugins[id] ],
    healthscore |-> [ id \in DOMAIN dd.healthscore \ ids |-> dd.healthscore[id] ] ]

\* C5: dependency_risk_points is the sum of the risk_points of the five
\* highest-ranked dependencies (by risk_points, then max_cvss, descending)
\* clamped into [0, 20]; it is what the dependencies add to the running
\* total, and it is never more than 20.
C5_TopFiveCapped ==
  \A i \in Returned :
    LET f == results[i].result.features
        ids == f.dependency_plugins
        n == Len(ids)
        top == f.dependency_details_top
        alone == ScoreSignals(plugin, WithoutFilesOf(data_dir, Range(ids)), real,
                              results[i].today)
    IN  /\ f.dependency_risk_points \in 0..20
        /\ \A det \in { [ k \in 1..n |->
                            _dependency_points(ids[k], data_dir, results[i].today, real) ] } :
             \A pts \in { [ k \in 1..n |-> det[k].risk_points ] } :
               LET ranked(T) == \A a \in T, b \in (1..n) \ T :
                                  \/ pts[a] > pts[b]
                                  \/ pts[a] = pts[b] /\ ~DepKeyLess(det[a], det[b])
                   five == { T \in SUBSET (1..n) : Cardinality(T) = Min(5, n) /\ ranked(T) }
               IN  /\ five # {}
                   /\ \A T \in five :
                        f.dependency_risk_points = Max(0, Min(20, SumOver(pts, T)))
        /\ \A k \in 1..(Len(top) - 1) : ~DepKeyLess(top[k], top[k + 1])
        /\ Strip(Lower(plugin)) \notin Range(ids) =>
             RunningTotal(i) = alone.total + f.dependency_risk_points

\* A call on a plugin with more than five dependencies, all with points,
\* whose five highest stay under the cap has returned.
C5_Witness ==
  \E i \in Returned :
    LET f == results[i].result.features
        ids == f.dependency_plugins
        pts == [ k \in 1..Len(ids) |->
                   _dependency_points(ids[k], data_dir, results[i].today, real).risk_points ]
    IN  /\ Len(ids) > 5
        /\ f.dependency_risk_points \in 1..19
        /\ SumOver(pts, 1..Len(ids)) > f.dependency_risk_points

\* The runs of score_plugin_baseline over the scenario datasets, on every
\* day of the clock.
ScenarioRuns ==
  { score_plugin_baseline(inp.plugin, inp.data_dir, inp.real, d) :
      inp \in ScenarioInputs, d \in TodayStart..(TodayStart + MaxTicks) }

\* A finding of critical severity: stated in words, or, without a stated
\* label, derived from a CVSS base score of 9.0 or more.
CriticalFinding(v) ==
  \/ Truthy(v.severity_label) /\ Lower(v.severity_label) = T_critical
  \/ ~Truthy(v.severity_label) /\ v.cvss.present /\ v.cvss.base_score >= 90

\* The dataset holds exactly one advisory record for the plugin, dated
\* within the 30 days before day and with a critical finding, and a
\* snapshot with exactly one active security warning.
RecentCriticalScenario(day) ==
  LET Advisories(advisories) ==
        /\ Len(advisories) = 1
        /\ _parse_date(advisories[1].published_date) # 0
        /\ day - _parse_date(advisories[1].published_date) \in 0..30
        /\ \E k \in 1..Len(advisories[1].vulnerabilities) :
             CriticalFinding(advisories[1].vulnerabilities[k])
      Warnings(snapshot) ==
        snapshot.exists /\ CountActive(snapshot.plugin_api.securityWarnings) = 1
      Named(name) ==
        /\ ~LoadRaises(name, data_dir, real)
        /\ Advisories(_load_advisories_for_plugin(name, data_dir, real))
        /\ Warnings(_load_plugin_snapshot(name, data_dir))
  IN  Named(Strip(Lower(plugin)))

\* C17: with exactly one advisory record dated within the last 30 days that
\* has a critical finding, and a snapshot with one active security warning,
\* the score is the clamped sum of +2 history, +20 recency, +10 severity,
\* +20 active warning, the keyword bonus and the remaining signals, and
\* reasons holds a separate entry for each of the four contributions.
C17_RecentCritical ==
  LET Rest(f) ==
        (IF f.matched_core_keywords # << >> THEN 20 ELSE 0)
          + (IF f.matched_scm_keywords # << >> THEN 10 ELSE 0)
          + (IF f.dependency_count >= 10 THEN 5
             ELSE IF f.dependency_count >= 5 THEN 3 ELSE 0)
          - (IF f.days_since_release # << >> /\ f.days_since_release[1] <= 180
             THEN 3 ELSE 0)
          + f.dependency_risk_points
          + Max(0, _healthscore_to_risk_points(f.healthscore_value))
      Attributed(reasons) ==
        /\ Reason("Advisory history", << 2 >>, << >>) \in Range(reasons)
        /\ Reason("Recent advisories (within 90d, within 365d)", << 20, 1, 0 >>, << >>)
             \in Range(reasons)
        /\ \E k \in 1..Len(reasons) :
             /\ reasons[k].tag \in { "Advisory severity (CVSS, max observed: Critical)",
                                     "Advisory severity (CVSS)" }
             /\ reasons[k].nums[1] = 10
        /\ Reason("Active security warning(s) significantly increase risk.", << >>, << >>)
             \in Range(reasons)
      Scored(r) ==
        /\ r.score = Min(100, 2 + 20 + 10 + 20 + Rest(r.features))
        /\ Attributed(r.reasons)
  IN  \A i \in Returned :
        RecentCriticalScenario(results[i].today) => Scored(results[i].result)

\* C18: the score is a function of the features alone: a run whose features
\* equal those of another run, over whatever dataset, has the same score.
C18_ScoreFromFeatures ==
  \A i \in Returned :
    \A r \in ScenarioRuns :
      (~r.raised /\ r.features = results[i].result.features)
        => r.score = results[i].result.score

\* C19: score_plugin_baseline does not raise when a file it consults is not
\* valid JSON (a truncated line in the advisories file of the plugin or of
\* a dependency, a snapshot that does not parse): every call returns.
C19_MalformedTolerated ==
  LoadRaises(Strip(Lower(plugin)), data_dir, real)
    => \A i \in 1..Len(results) : ~results[i].result.raised

\* The three advisories files of the scored plugin.
OwnAdvisoriesFiles == data_dir.advisories[Strip(Lower(plugin))]

\* C21: score_plugin_baseline sees the records of exactly one advisories
\* file of the plugin: with the real flag the real file if it exists, else
\* the sample file, else the bare one; without the flag sample, real, bare;
\* the records of two files are never combined, and without any file the
\* list is empty and the load does not raise.
C21_OneFileRead ==
  LET Seen(f, lines) ==
        /\ f.advisory_count = Len(lines)
        /\ f.latest_advisory_date = LatestDate(AdvisoryDates(lines))
      Chosen(f, files) ==
        IF real
        THEN IF files.real.exists THEN Seen(f, files.real.lines)
             ELSE IF files.sample.exists THEN Seen(f, files.sample.lines)
             ELSE IF files.bare.exists THEN Seen(f, files.bare.lines)
             ELSE f.advisory_count = 0
        ELSE IF files.sample.exists THEN Seen(f, files.sample.lines)
             ELSE IF files.real.exists THEN Seen(f, files.real.lines)
             ELSE IF files.bare.exists THEN Seen(f, files.bare.lines)
             ELSE f.advisory_count = 0
  IN  \A i \in Returned : Chosen(results[i].result.features, OwnAdvisoriesFiles)

\* A call with the real flag has returned on a dataset where the real and
\* the sample file both exist and hold different numbers of records.
C21_Witness ==
  /\ real
  /\ OwnAdvisoriesFiles.real.exists
  /\ OwnAdvisoriesFiles.sample.exists
  /\ Len(OwnAdvisoriesFiles.real.lines) # Len(OwnAdvisoriesFiles.sample.lines)
  /\ \E i \in Returned :
       results[i].result.features.advisory_count = Len(OwnAdvisoriesFiles.real.lines)

\* The dataset dd after every dependency snapshot that exists among ids has
\* been given another list of dependencies of its own.
WithDependenciesOfDependencies(dd, ids) ==
  [ dd EXCEPT !.plugins =
      [ id \in DOMAIN dd.plugins |->
          IF id \in ids /\ dd.plugins[id].exists /\ dd.plugins[id].plugin_api # InvalidJson
          THEN [ dd.plugins[id] EXCEPT !.plugin_api.dependencies = << << "z" >>, DepName(3) >> ]
          ELSE dd.plugins[id] ] ]

\* The dataset dd after every plugin outside keep, and a plugin z new to the
\* dataset, has been given critical advisories, active warnings and the
\* worst health score.
WithOtherPlugins(dd, keep) ==
  LET Others == (DOMAIN dd.advisories \cup { << "z" >> }) \ keep
  IN  [ advisories |->
          [ id \in DOMAIN dd.advisories \cup Others |->
              IF id \in Others THEN DepProfiles[2].files ELSE dd.advisories[id] ],
        plugins |->
          [ id \in DOMAIN dd.plugins \cup Others |->
              IF id \in Others THEN DepProfiles[2].snapshot ELSE dd.plugins[id] ],
        healthscore |->
          [ id \in DOMAIN dd.healthscore \cup Others |->
              IF id \in Others THEN DepProfiles[2].health ELSE dd.healthscore[id] ] ]

\* The dependencies the scored plugin declares directly.
DeclaredDependencies ==
  LET Declared(snapshot) ==
        IF snapshot.exists /\ snapshot.plugin_api # InvalidJson
        THEN Range(_extract_dependency_plugin_ids(snapshot)) ELSE {}
  IN  Declared(_load_plugin_snapshot(Strip(Lower(plugin)), data_dir))

\* C22: the dependency rollup has depth 1: the result of the latest call is
\* the result the same call gives after the dependencies lists inside the
\* dependencies' snapshots have changed, and after the data of every plugin
\* that is neither the scored plugin nor one of its declared dependencies
\* has changed.
C22_DepthOne ==
  LET Same(r, declared) ==
        /\ score_plugin_baseline(plugin, WithDependenciesOfDependencies(data_dir, declared),
                                 real, r.today) = r.result
        /\ score_plugin_baseline(plugin,
                                 WithOtherPlugins(data_dir,
                                                  declared \cup { Strip(Lower(plugin)) }),
                                 real, r.today) = r.result
  IN  (results # << >> /\ Len(results) \in Returned)
        => Same(results[Len(results)], DeclaredDependencies)

\* A call has returned for a plugin that declares a dependency whose
\* snapshot exists and contributes points, while the dataset holds data of
\* a plugin it does not declare.
C22_Witness ==
  /\ results # << >>
  /\ Len(results) \in Returned
  /\ \E id \in DeclaredDependencies :
       /\ _load_plugin_snapshot(id, data_dir).exists
       /\ WithDependenciesOfDependencies(data_dir, DeclaredDependencies) # data_dir
  /\ results[Len(results)].result.features.dependency_risk_points > 0
  /\ \E id \in DOMAIN data_dir.advisories \ (DeclaredDependencies \cup { Strip(Lower(plugin)) }) :
       AdvisoriesFileExists(id, data_dir)

\* The lower-cased plugin id contains one of the security/auth keywords.
HasSecurityKeyword ==
  \E k \in { << "c", "r", "e", "d", "e", "n", "t", "i", "a", "l", "s" >>,
             << "s", "e", "c", "u", "r", "i", "t", "y" >>,
             << "a", "u", "t", "h" >>, << "o", "a", "u", "t", "h" >>,
             << "s", "a", "m", "l" >>, << "l", "d", "a", "p" >> } :
    IsSubstring(k, Lower(plugin))

\* C24 as stated: a plugin whose lower-cased id contains a security/auth
\* keyword is scored at least 20, whatever data exists for it.
C24_Original ==
  HasSecurityKeyword => \A i \in Returned : results[i].result.score >= 20

\* C24: a plugin whose lower-cased id contains a security/auth keyword is
\* scored at least 17, and at least 20 unless its snapshot shows a release
\* within the last 180 days (the maintenance discount of 3).
C24_Amended ==
  LET Discounted(f) ==
        f.days_since_release # << >> /\ f.days_since_release[1] <= 180
      Floor(r) ==
        /\ r.score >= 17
        /\ ~Discounted(r.features) => r.score >= 20
  IN  HasSecurityKeyword => \A i \in Returned : Floor(results[i].result)

\* A call for a plugin with a security/auth keyword has returned 17: the
\* keyword is its only signal and its latest release is 180 days old.
C24_Witness ==
  /\ HasSecurityKeyword
  /\ \E i \in Returned :
       /\ results[i].result.score = 17
       /\ results[i].result.features.days_since_release = << 180 >>

\* The step of the signal ladder a reason belongs to: 1 name keywords, 2 own
\* advisories, 3 own metadata, 4 dependency rollup, 5 health score, 6 the
\* default floor; 0 for a text no step emits.
LadderStep(tag) ==
  IF tag \in { "Name suggests auth/security surface area (baseline heuristic).",
               "Name suggests SCM/integration surface area (baseline heuristic)." }
  THEN 1
  ELSE IF tag \in { "advisory record(s) found for this plugin.", "Advisory history",
                    "Recent advisories (within 90d, within 365d)",
                    "Recent advisories (within 365d)",
                    "Recent advisory activity (<= 365 days).",
                    "No advisory activity in the last 365 days (recency bonus = 0).",
                    "Advisory severity (CVSS)",
                    "Advisory severity (CVSS, max observed: None)",
                    "Advisory severity (CVSS, max observed: Low)",
                    "Advisory severity (CVSS, max observed: Medium)",
                    "Advisory severity (CVSS, max observed: High)",
                    "Advisory severity (CVSS, max observed: Critical)",
                    "No advisories found in local dataset (yet)." }
  THEN 2
  ELSE IF tag \in { "Requires Jenkins core", "Declares plugin dependency(ies)",
                    "security warning(s) listed (none active).",
                    "security warning(s) listed (active)", "Latest release is",
                    "Active security warning(s) significantly increase risk.",
                    "Recent release activity suggests active maintenance." }
  THEN 3
  ELSE IF tag \in { "Dependency plugins declared.", "Dependency risk: worst is",
                    "Dependency risk: deps have active warnings.",
                    "Dependency risk contribution" }
  THEN 4
  ELSE IF tag \in { "Health score",
                    "Health score record present but value was not parseable.",
                    "No health score record found in local dataset (yet)." }
  THEN 5
  ELSE IF tag = "No heuristics matched (baseline default)." THEN 6
  ELSE 0

\* C25: the reasons of a result come in the order of the signal ladder:
\* name keywords, own advisories, own metadata, dependency rollup, health
\* score, and the default-floor reason, when present, last.
C25_LadderOrder ==
  LET Ordered(reasons) ==
        /\ \A k \in 1..Len(reasons) : LadderStep(reasons[k].tag) # 0
        /\ \A k \in 1..(Len(reasons) - 1) :
             LadderStep(reasons[k].tag) <= LadderStep(reasons[k + 1].tag)
        /\ \A k \in 1..Len(reasons) :
             LadderStep(reasons[k].tag) = 6 => k = Len(reasons)
  IN  \A i \in Returned : Ordered(results[i].result.reasons)

\* A call has returned reasons of each of the first five steps.
C25_Witness ==
  LET Steps(reasons) == { LadderStep(reasons[k].tag) : k \in 1..Len(reasons) }
  IN  \E i \in Returned : Steps(results[i].result.reasons) = 1..5

\* The dataset with the value of the plugin's own health-score record set.
WithHealthValue(dd, plugin_id, value) ==
  [ dd EXCEPT !.healthscore = [ id \in DOMAIN @ |->
                                  IF id = plugin_id THEN Health(value) ELSE @[id] ] ]

\* The health-score values that are numbers.
HealthValues ==
  { HealthOptions[k].value : k \in DOMAIN HealthOptions }
    \ { NoHealthValue, NaNHealthValue }

\* C30: the score is monotone in the health signal: of two datasets that
\* differ only in the value of the plugin's own health-score record, the one
\* with the lower value never receives the lower score.
C30_HealthMonotone ==
  LET Ordered(r, own, other) ==
        /\ other < own => score_plugin_baseline(
                            plugin, WithHealthValue(data_dir, Strip(Lower(plugin)), other),
                            real, r.today).score >= r.result.score
        /\ other > own => score_plugin_baseline(
                            plugin, WithHealthValue(data_dir, Strip(Lower(plugin)), other),
                            real, r.today).score <= r.result.score
      Monotone(r, hs) ==
        (hs.exists /\ hs.value \in HealthValues)
          => \A other \in HealthValues : Ordered(r, hs.value, other)
  IN  (results # << >> /\ Len(results) \in Returned)
        => Monotone(results[Len(results)],
                    _load_healthscore_record(Strip(Lower(plugin)), data_dir))

\* ------------------------------------------------------------------------
\* Properties of the URL canonicaliser
\* ------------------------------------------------------------------------

\* C11: _canonicalize_jenkins_url never raises: for the malformed text
\* "//[\n" it returns the null sentinel, and every other result it returns is
\* a text that urlparse accepts, so that the fuzzer's re-parse never crashes.
C11_ResultParses ==
  /\ fuzz # "crashed"
  /\ \A i \in 1..Len(canon) : canon[i] = None \/ urlparse(canon[i]).ok
  /\ (url = << "/", "/", "[", "\n" >> /\ canon # << >>) => canon[1] = None

\* C12: canonicalisation is idempotent: applying _canonicalize_jenkins_url to
\* its own result changes nothing, and the same for _normalize_advisory_url.
C12_Idempotent ==
  /\ Len(canon) >= 2 => canon[2] = canon[1]
  /\ Len(norm) >= 2 => norm[2] = norm[1]

\* C27: _canonicalize_jenkins_url rewrites the host only when the network
\* location is exactly jenkins.io, to www.jenkins.io; every other host, also
\* one that contains jenkins.io as a substring (evil-jenkins.io,
\* jenkins.io.example.com), is the host of the returned URL unchanged.
C27_ExactHostOnly ==
  LET Hosts(p, q) ==
        q.ok =>
          /\ p.netloc = T_jenkins_io => q.netloc = T_www_jenkins_io
          /\ (p.netloc # T_jenkins_io /\ p.netloc # << >>) => q.netloc = p.netloc
  IN  (canon # << >> /\ Truthy(url) /\ urlparse(Strip(url)).ok)
        => Hosts(urlparse(Strip(url)), urlparse(canon[1]))

\* The hosts evil-jenkins.io and jenkins.io.example.com have each been
\* canonicalised, and so has the bare host jenkins.io.
C27_Witness ==
  /\ canon # << >>
  /\ Truthy(url)
  /\ urlparse(Strip(url)).ok
  /\ urlparse(Strip(url)).netloc \in SpoofHosts \ { T_jenkins_io, T_www_jenkins_io }
  /\ urlparse(canon[1]).netloc = urlparse(Strip(url)).netloc

\* ------------------------------------------------------------------------
\* Properties of the CVSS evaluator
\* ------------------------------------------------------------------------

\* C13: _cvss3_base_score returns either the null sentinel or a base score b
\* with 0.0 <= b <= 10.0, also for the vectors whose raw value reaches the
\* cap of 10.
C13_ScoreInRange ==
  (vector # None /\ base_score # << >>)
    => (base_score[1] = -1 \/ base_score[1] \in 0..100)

\* C14: _cvss3_base_score returns the null sentinel when the vector does not
\* begin with CVSS:3, or when any of the eight metrics AV, AC, PR, UI, S, C,
\* I, A is missing or carries a value outside its allowed set.
C14_NullWhenMalformed ==
  LET Malformed(parts) ==
        \/ ~StartsWith(vector, T_cvss \o << "3" >>)
        \/ \E j \in 1..8 : MetricValue(parts, MetricKeys[j]) \notin AllowedValues[j]
  IN  (vector # None /\ base_score # << >> /\ Malformed(Split(vector, "/")))
        => base_score[1] = -1

\* C15: for a vector that parses and has a positive impact the base score is
\* the smallest one-decimal value not below the capped raw value, so that a
\* raw value that is a whole tenth is returned unchanged; the vector
\* CVSS:3.0/AV:N/AC:H/PR:L/UI:R/S:C/C:L/I:L/A:N scores 4.4.
C15_RoundsUp ==
  LET Smallest(r, b) ==
        (r.parsed /\ r.impact > 0)
          => /\ b * (One \div 10) >= r.raw
             /\ (b - 1) * (One \div 10) < r.raw
  IN  (vector # None /\ base_score # << >>)
        => /\ Smallest(Cvss3Raw(vector), base_score[1])
           /\ vector = << "C", "V", "S", "S", ":", "3", ".", "0", "/", "A", "V", ":", "N",
                          "/", "A", "C", ":", "H", "/", "P", "R", ":", "L",
                          "/", "U", "I", ":", "R", "/", "S", ":", "C",
                          "/", "C", ":", "L", "/", "I", ":", "L", "/", "A", ":", "N" >>
                => base_score[1] = 44

\* C16: the collector's _cvss_base_score_to_severity_label and the scorer's
\* _cvss_base_score_to_label give every numeric score the same label up to
\* letter case.
C16_SameBands ==
  LET lower(label) ==
        CASE label = "None" -> "none"
          [] label = "Low" -> "low"
          [] label = "Medium" -> "medium"
          [] label = "High" -> "high"
          [] label = "Critical" -> "critical"
          [] OTHER -> label
  IN  (labels # << >> /\ base_score[1] # -1)
        => lower(labels[1].scorer) = lower(labels[1].collector)


\* ------------------------------------------------------------------------
\* Properties of the registry collector
\* ------------------------------------------------------------------------

\* The number of objects of the first k pages fetched.
PluginsFetched(k) == SumOver([ i \in 1..k |-> Len(raw_pages[i].plugins) ], 1..k)

\* The registry records of all pages fetched, in page order.
RecordsFetched == Concat([ i \in 1..Len(raw_pages) |-> PageRecords(raw_pages[i].plugins) ])

\* The pages fetched are of the shape {plugins, total: n}, and hold no more
\* than n plugin objects together.
PagesOfTotal(n) ==
  /\ raw_pages # << >>
  /\ \A i \in 1..Len(raw_pages) :
       /\ raw_pages[i].shape = "dict"
       /\ raw_pages[i].next = None
       /\ PageTotal(raw_pages[i]) = << n >>
  /\ PluginsFetched(Len(raw_pages)) <= n

\* C28: for pages of the shape {plugins, total: N} that together hold N
\* plugins, the collector requests each page once, at the offset that is the
\* number of objects of the pages before it; it returns the records of all
\* pages in page order, one per object with a usable id and never more than
\* max_plugins when that is given; and it stops as soon as the objects
\* received reach the total.
C28_Paginates ==
  LET Claimed(n) ==
        /\ \A i \in 1..Len(requests) :
             requests[i] = [ link |-> None, offset |-> PluginsFetched(i - 1) ]
        /\ registry = IF max_plugins = << >> THEN RecordsFetched
                      ELSE Take(RecordsFetched, Min(max_plugins[1], Len(RecordsFetched)))
        /\ rpc = "loop" => (PluginsFetched(Len(raw_pages)) < n
                            /\ offset = PluginsFetched(Len(raw_pages)))
        /\ rpc = "returned" =>
             \/ PluginsFetched(Len(raw_pages)) = n
             \/ max_plugins # << >> /\ Len(registry) >= max_plugins[1]
  IN  \A n \in 0..3 : (rpc \in { "loop", "returned" } /\ PagesOfTotal(n)) => Claimed(n)

\* C29: every iteration of the loop that neither returns nor raises
\* strictly advances towards termination: the offset grows, or a link not
\* followed before is to be followed, or the registry grows towards
\* max_plugins.
C29_Advances ==
  [][ (rpc = "loop" /\ rpc' = "loop" /\ raw_pages' # raw_pages) =>
        \/ offset' > offset
        \/ /\ next_url' # None
           /\ \A i \in 1..Len(requests') : requests'[i].link # next_url'
        \/ max_plugins # << >> /\ Len(registry') > Len(registry) ]_vars

\* ------------------------------------------------------------------------
\* Properties of the dataset writers
\* ------------------------------------------------------------------------

\* C23: a read of the scorer that runs while a writer is at work never sees
\* a partially written file: it finds the file absent, or as it was before
\* the writer ran, or with the whole text the writer is to write.
C23_NoPartialRead ==
  \A i \in 1..Len(reads) :
    \/ ~reads[i].exists
    \/ reads[i] = earlier
    \/ reads[i] = OnDisk(payload)

====
